---- MODULE Spec2Model ----
(***************************************************************************)
(* Time-range cache and multi-source query federation engine of the        *)
(* Frigate camera-manager engine (engine-frigate.ts), together with the    *)
(* range algebra and the coverage caches that follow it in the same file.  *)
(*                                                                         *)
(* Instants are integers (milliseconds since the epoch, as Date.getTime()  *)
(* gives them).                                                            *)
(***************************************************************************)
EXTENDS Integers, Sequences, FiniteSets, TLC

VARIABLES
    ranges,        \* MemoryRangeSet._ranges: the stored intervals, in order
    added,         \* history: the ranges given to add() since the last clear()
    lastOp,        \* history: the last operation applied to the range set
    now,           \* the wall clock (new Date()), in milliseconds
    requestCache,  \* _requestCache: the Keyed Result Cache
    segCache,      \* _recordingSegmentsCache: the Segment Cache
    gcTimer,       \* the timer of _throttledSegmentGarbageCollector
    call,          \* the federation call the callers made last
    earlier,       \* the calls made before it, oldest first, whose remote
                   \* calls were in flight when it was made
    callsLeft,     \* how many more federation calls the callers make
    segDone,       \* history: <<camera, range>> of the cached segment calls
                   \* that completed successfully
    expRanges,     \* ExpiringMemoryRangeSet._ranges: the stored intervals
    expAdded,      \* history: the intervals given to the expiring add()
                   \* since the last clear()
    fnArg,         \* the arguments of the function or operation applied
    fnOut,         \* what it returned
    backend        \* the recordings summary the backend has of each camera

rangeVars == <<ranges, added, lastOp>>

expiringVars == <<expRanges, expAdded>>

fnVars == <<fnArg, fnOut>>

engineVars ==
    <<now, requestCache, segCache, gcTimer, call, earlier, callsLeft,
      segDone, backend>>

vars == <<ranges, added, lastOp, now, requestCache, segCache, gcTimer, call,
          earlier, callsLeft, segDone, expRanges, expAdded, fnArg, fnOut,
          backend>>

(***************************************************************************)
(* Bounds of the model.                                                    *)
(***************************************************************************)
\* Instants of the coverage-cache model range over 0..MaxTime.
MaxTime == 4
\* At most MaxAdds ranges are added between two clear() calls.
MaxAdds == 4

(***************************************************************************)
(* Range algebra.                                                          *)
(***************************************************************************)
Range(s, e) == [start |-> s, end |-> e]

\* Every interval with start <= end over the model's instants.
AllRanges ==
    {r \in [start : 0..MaxTime, end : 0..MaxTime] : r.start <= r.end}

\* Containment with only the start of the smaller range tested.
rangeStartsWithin(bigger, smaller) ==
    smaller.start >= bigger.start /\ smaller.start <= bigger.end

rangeIsEntirelyContained(bigger, smaller) ==
    smaller.start >= bigger.start /\ smaller.end <= bigger.end

\* rangesOverlap without its third case (a encompasses b).
rangesOverlapEndpointsOnly(a, b) ==
    \/ (a.start >= b.start /\ a.start <= b.end)
    \/ (a.end >= b.start /\ a.end <= b.end)

rangesOverlap(a, b) ==
    \/ (a.start >= b.start /\ a.start <= b.end)
    \/ (a.end >= b.start /\ a.end <= b.end)
    \/ (a.start <= b.start /\ a.end >= b.end)

\* lodash orderBy(ranges, start, 'asc') is a stable sort: r goes after every
\* element whose start is not greater than its own.
RECURSIVE InsertByStart(_, _)
InsertByStart(sorted, r) ==
    IF sorted = <<>> THEN <<r>>
    ELSE IF Head(sorted).start <= r.start
         THEN <<Head(sorted)>> \o InsertByStart(Tail(sorted), r)
         ELSE <<r>> \o sorted

\* The input left in the order given.
orderByStartUnsorted(rs) == rs

RECURSIVE orderByStart(_)
orderByStart(rs) ==
    IF rs = <<>> THEN <<>>
    ELSE InsertByStart(orderByStart(SubSeq(rs, 1, Len(rs) - 1)), rs[Len(rs)])

\* The loop of compressRanges with the end of the accumulator always
\* overwritten by the end of the merged range (the comparison dropped).
RECURSIVE compressWalkOverwriteEnd(_, _, _, _)
compressWalkOverwriteEnd(sorted, current, out, toleranceSeconds) ==
    IF sorted = <<>> THEN Append(out, current)
    ELSE LET range == Head(sorted) IN
         IF current.end + toleranceSeconds * 1000 >= range.start
         THEN compressWalkOverwriteEnd(Tail(sorted),
                  [current EXCEPT !.end = range.end], out, toleranceSeconds)
         ELSE compressWalkOverwriteEnd(Tail(sorted), range,
                  Append(out, current), toleranceSeconds)

\* The loop of compressRanges with a strict comparison: touching ranges are
\* no longer merged.
RECURSIVE compressWalkStrict(_, _, _, _)
compressWalkStrict(sorted, current, out, toleranceSeconds) ==
    IF sorted = <<>> THEN Append(out, current)
    ELSE LET range == Head(sorted) IN
         IF current.end + toleranceSeconds * 1000 > range.start
         THEN compressWalkStrict(Tail(sorted),
                  [current EXCEPT !.end = IF range.end > current.end
                                          THEN range.end ELSE current.end],
                  out, toleranceSeconds)
         ELSE compressWalkStrict(Tail(sorted), range,
                  Append(out, current), toleranceSeconds)

\* The loop of compressRanges with the tolerance added to the end of every
\* range it pushes.
RECURSIVE compressWalkPadEnd(_, _, _, _)
compressWalkPadEnd(sorted, current, out, toleranceSeconds) ==
    IF sorted = <<>>
    THEN Append(out, [current EXCEPT !.end = @ + toleranceSeconds * 1000])
    ELSE LET range == Head(sorted) IN
         IF current.end + toleranceSeconds * 1000 >= range.start
         THEN compressWalkPadEnd(Tail(sorted),
                  [current EXCEPT !.end = IF range.end > current.end
                                          THEN range.end ELSE current.end],
                  out, toleranceSeconds)
         ELSE compressWalkPadEnd(Tail(sorted), range,
                  Append(out, [current EXCEPT
                                  !.end = @ + toleranceSeconds * 1000]),
                  toleranceSeconds)

\* The loop of compressRanges with the tolerance left out of the comparison.
RECURSIVE compressWalkNoTolerance(_, _, _, _)
compressWalkNoTolerance(sorted, current, out, toleranceSeconds) ==
    IF sorted = <<>> THEN Append(out, current)
    ELSE LET range == Head(sorted) IN
         IF current.end >= range.start
         THEN compressWalkNoTolerance(Tail(sorted),
                  [current EXCEPT !.end = IF range.end > current.end
                                          THEN range.end ELSE current.end],
                  out, toleranceSeconds)
         ELSE compressWalkNoTolerance(Tail(sorted), range,
                  Append(out, current), toleranceSeconds)

\* The loop of compressRanges once `current` holds the first range: `sorted`
\* is what is left of the ordered input, `out` is compressedRanges.
RECURSIVE compressWalk(_, _, _, _)
compressWalk(sorted, current, out, toleranceSeconds) ==
    IF sorted = <<>> THEN Append(out, current)
    ELSE LET range == Head(sorted) IN
         IF current.end + toleranceSeconds * 1000 >= range.start
         THEN compressWalk(Tail(sorted),
                  [current EXCEPT !.end = IF range.end > current.end
                                          THEN range.end ELSE current.end],
                  out, toleranceSeconds)
         ELSE compressWalk(Tail(sorted), range,
                  Append(out, current), toleranceSeconds)

compressRanges(rs, toleranceSeconds) ==
    LET sorted == orderByStart(rs) IN
    IF sorted = <<>> THEN <<>>
    ELSE compressWalk(Tail(sorted), Head(sorted), <<>>, toleranceSeconds)

(***************************************************************************)
(* MemoryRangeSet: the plain coverage cache.                               *)
(***************************************************************************)
\* MemoryRangeSet.hasCoverage on a stored sequence rs.
hasCoverage(rs, range) ==
    \E i \in 1..Len(rs) : rangeIsEntirelyContained(rs[i], range)

\* MemoryRangeSet.add without the compression: the range is only pushed.
rangeSetAddPushOnly(rs, range) == Append(rs, range)

\* MemoryRangeSet.add on a stored sequence rs: push, then compress.
rangeSetAdd(rs, range) == compressRanges(Append(rs, range), 0)


\* A new MemoryRangeSet.
InitRangeSet ==
    /\ ranges = <<>>
    /\ added = {}
    /\ lastOp = "new"

\* A new ExpiringMemoryRangeSet.
InitExpiringRangeSet ==
    /\ expRanges = <<>>
    /\ expAdded = {}

\* Nothing applied yet, and nothing to apply.
NoArg == [fn |-> "none"]
NoOut == [status |-> "none"]

InitNoFn ==
    /\ fnArg = NoArg
    /\ fnOut = NoOut

(***************************************************************************)
(* Collaborators of the engine: the camera configuration store and the     *)
(* backend behind the transport, as fixed fixtures.                        *)
(***************************************************************************)
\* A field that is not present (undefined) in a query or a request.
Absent == 0 - 1

SecondMs == 1 * 1000
HourMs == 60 * 60 * 1000

CameraConfig(clientID, cameraName) ==
    [configured |-> TRUE, client_id |-> clientID, camera_name |-> cameraName]

\* store.getCameraConfig answers null for a camera that is not configured.
NoConfig == [configured |-> FALSE, client_id |-> "", camera_name |-> ""]

\* The camera ids a caller may name. a1 and a2 are cameras of instance i1,
\* b1 of instance i2; nn is configured without a backend camera name; bird
\* is the birdseye camera of i1; u is not configured.
CameraIDs == {"a1", "a2", "b1", "nn", "bird", "u"}

getCameraConfig(cameraID) ==
    CASE cameraID = "a1" -> CameraConfig("i1", "front")
      [] cameraID = "a2" -> CameraConfig("i1", "back")
      [] cameraID = "b1" -> CameraConfig("i2", "gate")
      [] cameraID = "nn" -> CameraConfig("i2", "")
      [] cameraID = "bird" -> CameraConfig("i1", "birdseye")
      [] OTHER -> NoConfig

\* store.getCameraConfigEntries: the ids of the configured cameras.
ConfiguredCameraIDs == {c \in CameraIDs : getCameraConfig(c).configured}

isBirdseye(cameraConfig) == cameraConfig.camera_name = "birdseye"

InstanceIDs == {"i1", "i2"}

\* The events of each backend instance. The camera "yard" of i1 is not a
\* camera of the card.
Event(id, camera, hasClip, hasSnapshot) ==
    [id |-> id, camera |-> camera, has_clip |-> hasClip,
     has_snapshot |-> hasSnapshot]

InstanceEvents(instanceID) ==
    IF instanceID = "i1"
    THEN {Event("e1", "front", TRUE, TRUE), Event("e2", "back", FALSE, TRUE),
          Event("e3", "yard", TRUE, FALSE)}
    ELSE {Event("e4", "gate", TRUE, FALSE)}

\* The event summary of each backend instance. A sub_label is given as the
\* set of its comma-separated parts, which is what _splitSubLabels makes of
\* it; an empty label, day or sub_label is one that is not there.
SummaryEntry(camera, label, zones, day, subLabel) ==
    [camera |-> camera, label |-> label, zones |-> zones, day |-> day,
     sub_label |-> subLabel]

InstanceEventSummary(instanceID) ==
    IF instanceID = "i1"
    THEN {SummaryEntry("front", "person", {"porch"}, "1970-01-01", {}),
          SummaryEntry("yard", "cat", {}, "1970-01-01", {})}
    ELSE {SummaryEntry("gate", "car", {"drive"}, "1970-01-02", {"bob", "amy"})}

\* The recordings summary of each backend camera: days, each with its hours.
HourData(hour, events) == [hour |-> hour, events |-> events]

CameraRecordingSummary(cameraName) ==
    CASE cameraName = "front" ->
             <<[day |-> 0, hours |-> <<HourData(0, 2), HourData(1, 0)>>]>>
      [] cameraName = "gate" ->
             <<[day |-> 0, hours |-> <<HourData(1, 1)>>]>>
      [] OTHER -> <<>>

\* The backend cameras of the cameras that can be queried.
CameraNames == {"front", "back", "gate"}

\* The recording segments of each backend camera, in epoch seconds.
Segment(startTime, endTime) == [start_time |-> startTime, end_time |-> endTime]

CameraSegments(cameraName) ==
    CASE cameraName = "front" -> {Segment(0, 600), Segment(600, 1200),
                                  Segment(3600, 4200)}
      [] cameraName = "back" -> {Segment(0, 600)}
      [] cameraName = "gate" -> {Segment(1800, 2400)}
      [] OTHER -> {}

(***************************************************************************)
(* Queries, native requests and results.                                   *)
(***************************************************************************)
Query(type, cameraIDs, start, end, limit) ==
    [type |-> type, cameraIDs |-> cameraIDs, start |-> start, end |-> end,
     limit |-> limit]

\* No query: the key of a branch that wrote nothing.
NoQuery == Query("none", {}, Absent, Absent, Absent)

\* A native request to the backend: an event query, a recordings summary,
\* recording segments or an event summary.
Request(kind, instanceID, cameras, after, before) ==
    [kind |-> kind, instance_id |-> instanceID, cameras |-> cameras,
     after |-> after, before |-> before]

NoRequest == Request("none", "", {}, Absent, Absent)

Result(type, instanceID, payload, expiry, cached) ==
    [type |-> type, instanceID |-> instanceID, payload |-> payload,
     expiry |-> expiry, cached |-> cached]

\* null, where a result is expected.
NoResult == Result("none", "", {}, Absent, FALSE)

\* engineOptions?.useCache with no default: an omitted option counts as
\* false.
UseCacheNoDefault(useCacheOption) == useCacheOption = "true"

\* engineOptions?.useCache ?? true, the option being "true", "false" or
\* "omitted".
UseCache(useCacheOption) == useCacheOption # "false"

EVENT_REQUEST_CACHE_MAX_AGE_SECONDS == 60
RECORDING_SUMMARY_REQUEST_CACHE_MAX_AGE_SECONDS == 60
MEDIA_METADATA_REQUEST_CACHE_AGE_SECONDS == 60

\* add(new Date(), {seconds: n})
AddSeconds(date, seconds) == date + seconds * SecondMs

(***************************************************************************)
(* The Keyed Result Cache (RequestCache): a map from a query, compared by  *)
(* value, to a result with its expiry.                                     *)
(***************************************************************************)
requestCacheGet(cache, key, date) ==
    IF key \in DOMAIN cache /\ date <= cache[key].expires
    THEN cache[key].value
    ELSE NoResult

requestCacheHas(cache, key, date) ==
    requestCacheGet(cache, key, date).type # "none"

requestCacheSet(cache, key, value, expiry) ==
    [k \in DOMAIN cache \cup {key} |->
        IF k = key THEN [value |-> value, expires |-> expiry] ELSE cache[k]]

EmptyMap == [k \in {} |-> NoResult]

(***************************************************************************)
(* The Segment Cache (RecordingSegmentsCache): per camera, the segments    *)
(* stored and a MemoryRangeSet of the ranges fetched.                      *)
(***************************************************************************)
segCacheGetCameraIDs(cache) == DOMAIN cache

\* get(cameraID, range): the cached segments when the range is covered,
\* else null.
segCacheCovered(cache, cameraID, range) ==
    /\ cameraID \in DOMAIN cache
    /\ hasCoverage(cache[cameraID].coverage, range)

segCacheGet(cache, cameraID) == cache[cameraID].segments

segCacheAdd(cache, cameraID, range, segments) ==
    [c \in DOMAIN cache \cup {cameraID} |->
        IF c = cameraID
        THEN [coverage |-> rangeSetAdd(
                  IF c \in DOMAIN cache THEN cache[c].coverage ELSE <<>>,
                  range),
              segments |-> (IF c \in DOMAIN cache THEN cache[c].segments
                            ELSE {}) \cup segments]
        ELSE cache[c]]

\* expireMatches(cameraID, predicate), the predicate given as the set of
\* segments it holds of; the coverage is left as it is.
segCacheExpireMatches(cache, cameraID, matching) ==
    [c \in DOMAIN cache |->
        IF c = cameraID
        THEN [cache[c] EXCEPT !.segments = @ \ matching]
        ELSE cache[c]]

(***************************************************************************)
(* Helpers of the engine.                                                  *)
(***************************************************************************)
\* _getQueryableCameraConfig: null for a camera that is not configured or
\* is the birdseye camera.
getQueryableCameraConfig(cameraID) ==
    LET cameraConfig == getCameraConfig(cameraID) IN
    IF ~cameraConfig.configured \/ isBirdseye(cameraConfig)
    THEN NoConfig
    ELSE cameraConfig

\* _buildInstanceToCameraIDMapFromQuery: instance id -> the camera ids of
\* the query that have a queryable configuration with that client id.
buildInstanceToCameraIDMapFromQuery(cameraIDs) ==
    LET clientIDs ==
            {getQueryableCameraConfig(c).client_id : c \in cameraIDs} \ {""}
    IN [clientID \in clientIDs |->
           {c \in cameraIDs : getQueryableCameraConfig(c).client_id = clientID}]

\* _getFrigateCameraNamesForCameraIDs
getFrigateCameraNamesForCameraIDs(cameraIDs) ==
    {getQueryableCameraConfig(c).camera_name : c \in cameraIDs} \ {""}

\* Math.floor(date.getTime() / 1000) of a bound that may be absent.
EpochSeconds(date) == IF date = Absent THEN Absent ELSE date \div 1000

\* The transport's answers: the events of the instance for the cameras
\* named (for all its cameras when none is named), the segments of the
\* camera that overlap the window asked for.
BackendEvents(request) ==
    {e \in InstanceEvents(request.instance_id) :
        request.cameras = {} \/ e.camera \in request.cameras}

BackendSegments(request) ==
    {sg \in UNION {CameraSegments(n) : n \in request.cameras} :
        sg.start_time <= request.before /\ sg.end_time >= request.after}

\* date-fns startOfHour and endOfHour: the last millisecond of the hour.
startOfHour(date) == date - (date % HourMs)
endOfHour(date) == startOfHour(date) + HourMs - 1

\* A recording whose end is its start.
RecordingWithoutDuration(cameraID, startTime, endTime, events) ==
    [cameraID |-> cameraID, startTime |-> startTime, endTime |-> startTime,
     events |-> events]

Recording(cameraID, startTime, endTime, events) ==
    [cameraID |-> cameraID, startTime |-> startTime, endTime |-> endTime,
     events |-> events]

\* The inner loop with only the start of the hour tested against the
\* window.
RECURSIVE ExpandHoursStartOnly(_, _, _, _)
ExpandHoursStartOnly(day, hours, query, cameraID) ==
    IF hours = <<>> THEN <<>>
    ELSE LET hour == day + Head(hours).hour * HourMs
             startHour == startOfHour(hour)
             endHour == endOfHour(hour)
             rest == ExpandHoursStartOnly(day, Tail(hours), query, cameraID)
         IN IF /\ (query.start = Absent \/ startHour >= query.start)
               /\ (query.end = Absent \/ startHour <= query.end)
            THEN <<Recording(cameraID, startHour, endHour,
                             Head(hours).events)>> \o rest
            ELSE rest

\* The inner loop of getRecordings.processQuery over the hours of one day.
RECURSIVE ExpandHours(_, _, _, _)
ExpandHours(day, hours, query, cameraID) ==
    IF hours = <<>> THEN <<>>
    ELSE LET hour == day + Head(hours).hour * HourMs
             startHour == startOfHour(hour)
             endHour == endOfHour(hour)
             rest == ExpandHours(day, Tail(hours), query, cameraID)
         IN IF /\ (query.start = Absent \/ startHour >= query.start)
               /\ (query.end = Absent \/ endHour <= query.end)
            THEN <<Recording(cameraID, startHour, endHour,
                             Head(hours).events)>> \o rest
            ELSE rest

\* The outer loop of getRecordings.processQuery over the days of a summary.
RECURSIVE ExpandSummary(_, _, _)
ExpandSummary(recordingSummary, query, cameraID) ==
    IF recordingSummary = <<>> THEN <<>>
    ELSE ExpandHours(Head(recordingSummary).day, Head(recordingSummary).hours,
                     query, cameraID)
         \o ExpandSummary(Tail(recordingSummary), query, cameraID)

\* The sort in ascending order.
RECURSIVE InsertByStartTimeAsc(_, _)
InsertByStartTimeAsc(sorted, r) ==
    IF sorted = <<>> THEN <<r>>
    ELSE IF Head(sorted).startTime <= r.startTime
         THEN <<Head(sorted)>> \o InsertByStartTimeAsc(Tail(sorted), r)
         ELSE <<r>> \o sorted

\* lodash orderBy(recordings, startTime, 'desc'), a stable sort.
RECURSIVE InsertByStartTimeDesc(_, _)
InsertByStartTimeDesc(sorted, r) ==
    IF sorted = <<>> THEN <<r>>
    ELSE IF Head(sorted).startTime >= r.startTime
         THEN <<Head(sorted)>> \o InsertByStartTimeDesc(Tail(sorted), r)
         ELSE <<r>> \o sorted

RECURSIVE orderByStartTimeDesc(_)
orderByStartTimeDesc(rs) ==
    IF rs = <<>> THEN <<>>
    ELSE InsertByStartTimeDesc(
             orderByStartTimeDesc(SubSeq(rs, 1, Len(rs) - 1)), rs[Len(rs)])

\* recordings.slice(0, limit)
Slice(rs, limit) ==
    SubSeq(rs, 1, IF limit < Len(rs) THEN limit ELSE Len(rs))

\* The recordings getRecordings.processQuery makes of a summary.
RecordingsOf(recordingSummary, query, cameraID) ==
    LET recordings == ExpandSummary(recordingSummary, query, cameraID) IN
    IF query.limit # Absent
    THEN Slice(orderByStartTimeDesc(recordings), query.limit)
    ELSE recordings

\* formatDate: the calendar day of an instant.
formatDate(date) ==
    IF date \div (24 * HourMs) = 0 THEN "1970-01-01" ELSE "1970-01-02"

\* The metadata gathered by getMediaMetadata.
Metadata(what, where, days, tags) ==
    [what |-> what, where |-> where, days |-> days, tags |-> tags]

EmptyMetadata == Metadata({}, {}, {}, {})

(***************************************************************************)
(* A federation call. Its branches are named by the instance id (events,   *)
(* event summaries) or the camera id (recordings, segments) they serve.    *)
(* The position of a branch is "hit" (answered from the cache), "skipped"  *)
(* (it returned early), "waiting" (its remote call is in flight), "done"   *)
(* or "failed" (its remote call threw). The error a remote call throws is  *)
(* named by the branch that made the call.                                 *)
(*                                                                         *)
(* output is the Map the call fills. A Map tells its keys apart by object  *)
(* identity: the key is either the caller's query object ("caller") or the *)
(* object the branch made for itself (the branch's name).                  *)
(*                                                                         *)
(* error names the branch whose error Promise.all (allPromises) rejected   *)
(* with, the first to reach it; status tells what the caller has of the    *)
(* call: "pending" until what follows the await has run, then "map",       *)
(* "null" or "failed".                                                     *)
(*                                                                         *)
(* seek holds the arguments of the getMediaSeekTime that made the call and *)
(* awaits it, if there is one. inner holds, for every instance of a        *)
(* getMediaMetadata call, the getRecordings that processRecordings made    *)
(* and awaits: its output map, the camera whose error rejected its         *)
(* Promise.all, and its status, "pending", then "map", "null" or "failed", *)
(* and "joined" or "rejected" once processRecordings has gone on.          *)
(***************************************************************************)
EmptyOutput == [id \in {} |-> [key |-> NoQuery, result |-> NoResult]]

OutputSet(output, id, key, result) ==
    [x \in DOMAIN output \cup {id} |->
        IF x = id THEN [key |-> key, result |-> result] ELSE output[x]]

NoInner ==
    [i \in {} |-> [status |-> "pending", error |-> "", output |-> EmptyOutput]]

NoCall ==
    [op |-> "none", query |-> NoQuery, useCache |-> "omitted",
     pc |-> [b \in {} |-> "done"], req |-> [b \in {} |-> NoRequest],
     wrote |-> [b \in {} |-> NoQuery], output |-> EmptyOutput,
     meta |-> EmptyMetadata, status |-> "none", error |-> "",
     seek |-> NoArg, inner |-> NoInner]

NewCall(op, query, useCache, pc, req, output, meta) ==
    [op |-> op, query |-> query, useCache |-> useCache, pc |-> pc,
     req |-> req, wrote |-> [b \in DOMAIN pc |-> NoQuery], output |-> output,
     meta |-> meta, status |-> "pending", error |-> "", seek |-> NoArg,
     inner |-> NoInner]

Waiting(c) == {b \in DOMAIN c.pc : c.pc[b] = "waiting"}

\* The branches of a call that issued a remote call.
RemoteCalls(c) == {b \in DOMAIN c.pc : c.pc[b] \in {"waiting", "done", "failed"}}

\* The calls of the callers the state holds: slot 0 is the call made last,
\* slot i > 0 the i-th of the calls made before it. The engine keeps no
\* record of its calls: each is a promise of its own, and a caller may make
\* a call while remote calls of the calls before are in flight.
Slots == 0..Len(earlier)

CallAt(s) == IF s = 0 THEN call ELSE earlier[s]

\* Whether a remote call of a call of the callers is in flight.
InFlight == \E s \in Slots : Waiting(CallAt(s)) # {}

(***************************************************************************)
(* _throttledSegmentGarbageCollector: lodash throttle(func, wait,          *)
(* {leading: false, trailing: true}), which is debounce(func, wait,        *)
(* {leading: false, maxWait: wait, trailing: true}). gcTimer holds what    *)
(* debounce keeps (timerId as pending and fireAt, lastCallTime,            *)
(* lastInvokeTime, lastArgs), the invocations of func so far (passes) and  *)
(* the pass of _garbageCollectSegments in progress: pass is the            *)
(* getRecordings it made and awaits, and run is "running" from the start   *)
(* of the pass to its end. The arguments (hass,                            *)
(* store) of a trigger are named by the instant getRecordingSegments made  *)
(* it. idleSupported tells whether the host has requestIdleCallback, and   *)
(* idle holds the arguments of the triggers that wait for the host to be   *)
(* idle.                                                                   *)
(***************************************************************************)
GcWaitMs == 60 * 60 * 1000

NoTimer ==
    [pending |-> FALSE, fireAt |-> 0, lastCallTime |-> Absent,
     lastInvokeTime |-> 0, lastArgs |-> Absent, passes |-> <<>>,
     run |-> "idle", pass |-> NoCall, idleSupported |-> FALSE,
     idle |-> <<>>]

\* shouldInvoke(time), with maxing.
ShouldInvoke(timer, time) ==
    \/ timer.lastCallTime = Absent
    \/ time - timer.lastCallTime >= GcWaitMs
    \/ time - timer.lastCallTime < 0
    \/ time - timer.lastInvokeTime >= GcWaitMs

\* invokeFunc(time): func is called with lastArgs, which makes a pass due:
\* its synchronous part runs in the same step (StartPass). sync tells
\* whether the call is made inside the trigger.
InvokeFunc(timer, time, sync) ==
    [timer EXCEPT !.lastInvokeTime = time,
                  !.passes = Append(@, [at |-> time, args |-> timer.lastArgs,
                                        sync |-> sync]),
                  !.lastArgs = Absent,
                  !.run = "due"]

\* The trigger with lastArgs kept while a timer is pending.
TriggerGcKeepFirstArgs(timer, date, args) ==
    LET called == [timer EXCEPT !.lastArgs = IF timer.pending THEN @ ELSE args,
                                !.lastCallTime = date]
        started == [called EXCEPT !.pending = TRUE,
                                  !.fireAt = date + GcWaitMs]
    IN IF ShouldInvoke(timer, date)
       THEN IF ~timer.pending
            THEN [started EXCEPT !.lastInvokeTime = date]
            ELSE InvokeFunc(started, date, TRUE)
       ELSE IF ~timer.pending THEN started ELSE called

\* The trigger with func invoked on the leading edge as well.
TriggerGcLeading(timer, date, args) ==
    LET called == [timer EXCEPT !.lastArgs = args, !.lastCallTime = date]
        started == [called EXCEPT !.pending = TRUE,
                                  !.fireAt = date + GcWaitMs]
    IN IF ShouldInvoke(timer, date)
       THEN InvokeFunc(started, date, TRUE)
       ELSE IF ~timer.pending THEN started ELSE called

\* The trigger: a call of the throttled function at date. The first call
\* of a window starts the timer and invokes nothing (leading: false); a
\* call made while the timer is pending only leaves its arguments, unless
\* the last invocation (or the start of the window) is at least wait ago:
\* then the timer is started again and func is invoked inside the call.
TriggerGc(timer, date, args) ==
    LET called == [timer EXCEPT !.lastArgs = args, !.lastCallTime = date]
        started == [called EXCEPT !.pending = TRUE,
                                  !.fireAt = date + GcWaitMs]
    IN IF ShouldInvoke(timer, date)
       THEN IF ~timer.pending
            THEN [started EXCEPT !.lastInvokeTime = date]
            ELSE InvokeFunc(started, date, TRUE)
       ELSE IF ~timer.pending THEN started ELSE called

\* timerExpired(): the trailing edge invokes func if a trigger left its
\* arguments; a timer that expires too early is started again for the
\* remaining wait.
TimerExpiredAt(timer, time) ==
    IF ShouldInvoke(timer, time)
    THEN IF timer.lastArgs # Absent
         THEN InvokeFunc([timer EXCEPT !.pending = FALSE], time, FALSE)
         ELSE [timer EXCEPT !.pending = FALSE]
    ELSE LET sinceCall == time - timer.lastCallTime
             sinceInvoke == time - timer.lastInvokeTime
             remaining == IF sinceCall > sinceInvoke
                          THEN GcWaitMs - sinceCall
                          ELSE GcWaitMs - sinceInvoke
         IN [timer EXCEPT !.fireAt = time + remaining]

\* A call that has gone through its synchronous part, up to its await,
\* becomes the call made last: its promise is pending whether or not a
\* branch waits. Of the calls before it, those that have not returned,
\* have a remote call in flight, a getRecordings of processRecordings that
\* has not been joined, or a getMediaSeekTime that awaits them, go on.
InProgress(c) ==
    \/ c.status = "pending"
    \/ Waiting(c) # {}
    \/ c.seek # NoArg
    \/ \E i \in DOMAIN c.inner : c.inner[i].status \notin {"joined", "rejected"}

Begin(c) ==
    /\ call' = c
    /\ earlier' = SelectSeq(Append(earlier, call), InProgress)
    /\ UNCHANGED <<requestCache, gcTimer, segDone>>

\* The call of slot s goes on as c.
Put(s, c) ==
    /\ call' = IF s = 0 THEN c ELSE call
    /\ earlier' = IF s = 0 THEN earlier ELSE [earlier EXCEPT ![s] = c]

(***************************************************************************)
(* Bounds and inputs of the federation model.                              *)
(***************************************************************************)
\* At most MaxCalls federation calls are made when the callers use all four
\* operations, at most MaxEventCalls when they only ask for events.
MaxCalls == 2
MaxEventCalls == 3
\* At most MaxInFlight calls have not returned or have remote calls in
\* flight at once.
MaxInFlight == 2
\* The clock advances at most MaxTicks times, by TickMs each time.
MaxTicks == 2
TickMs == 40 * 1000

UseCacheOptions == {"true", "false", "omitted"}

\* The camera sets the callers ask for.
QueryCameraSets ==
    {{}, {"u"}, {"a1", "b1"}, {"a1", "nn", "bird", "u"}}

\* The camera sets the callers of the event model ask for.
EventCameraSets ==
    {{"a1"}, {"b1"}, {"a1", "b1"}, {"a1", "a2", "b1"}}

\* The windows of the segment queries: two hours, a part of them, and a
\* window that only overlaps them.
SegmentWindows ==
    {Range(0, 2 * HourMs), Range(600 * SecondMs, HourMs),
     Range(HourMs, 3 * HourMs)}

\* The event queries of the event model.
EventModelQueries ==
    {Query("event", cams, Absent, Absent, Absent) : cams \in EventCameraSets}

EventQueries ==
    {Query("event", cams, Absent, Absent, Absent) : cams \in QueryCameraSets}

RecordingQueries ==
    {Query("recording", cams, w.start, w.end, Absent) :
        cams \in QueryCameraSets,
        w \in {Range(Absent, Absent), Range(0, 2 * HourMs - 1)}}

RecordingSegmentsQueries ==
    {Query("recording-segments", cams, w.start, w.end, Absent) :
        cams \in QueryCameraSets, w \in SegmentWindows}

\* The camera sets the callers of getMediaMetadata ask for: every camera
\* of such a call brings a branch of the getRecordings that
\* processRecordings makes besides the branch of its instance.
MetadataCameraSets == {{}, {"u"}, {"a1"}, {"nn"}}

MediaMetadataQueries ==
    {Query("media-metadata", cams, Absent, Absent, Absent) :
        cams \in MetadataCameraSets}

(***************************************************************************)
(* getEvents                                                               *)
(***************************************************************************)
\* const instanceQuery = { ...query, cameraIDs: cameraIDs }
SubQuery(query, cameraIDs) == [query EXCEPT !.cameraIDs = cameraIDs]

\* The cache lookup of a branch: the Keyed Result Cache under the
\* sub-query when caching is on, else null.
CachedResult(cache, useCache, subQuery, date) ==
    IF UseCache(useCache) THEN requestCacheGet(cache, subQuery, date)
    ELSE NoResult

\* The key under which processInstanceQuery stores a fresh result.
EventsStoreKey(query, instanceQuery) == query

\* The key (its identity and its value) under which processInstanceQuery
\* puts a cached result in the output map.
EventsHitOutputID(instanceID) == "caller"
EventsHitOutputKey(query, instanceQuery) == query

EventsNativeQuery(query, instanceID, cameraIDs) ==
    Request("events", instanceID,
            getFrigateCameraNamesForCameraIDs(cameraIDs),
            EpochSeconds(query.start), EpochSeconds(query.end))

EventsResult(instanceID, request, date) ==
    Result("event", instanceID, BackendEvents(request),
           AddSeconds(date, EVENT_REQUEST_CACHE_MAX_AGE_SECONDS), FALSE)

\* A call c has reached the await of Promise.all (allPromises) and the
\* promise it awaits is settled: a branch has rejected, or every branch
\* has ended. The promise of the call is pending, and what follows the
\* await is a promise job that has not run yet.
AtAwait(c) ==
    /\ c.status = "pending"
    /\ \/ c.error # ""
       \/ /\ Waiting(c) = {}
          /\ \A i \in DOMAIN c.inner : c.inner[i].status = "joined"

\* The cameras of instance i of a getMediaMetadata call.
InnerCameras(c, i) ==
    buildInstanceToCameraIDMapFromQuery(c.query.cameraIDs)[i]

\* The instance a camera of a getMediaMetadata call belongs to.
InstanceOf(c, b) == CHOOSE i \in DOMAIN c.inner : b \in InnerCameras(c, i)

\* The getRecordings that processRecordings made for instance i has
\* reached its await and its Promise.all is settled.
InnerAtAwait(c, i) ==
    /\ c.inner[i].status = "pending"
    /\ \/ c.inner[i].error # ""
       \/ InnerCameras(c, i) \cap Waiting(c) = {}

\* That getRecordings has returned or thrown and processRecordings has
\* not gone on yet.
InnerReturned(c, i) == c.inner[i].status \in {"map", "null", "failed"}

\* A getMediaSeekTime awaits the call c, which has returned or thrown.
SeekAtAwait(c) == c.seek # NoArg /\ c.status \in {"map", "null", "failed"}

\* The getRecordings of the pass has returned or thrown and the pass has
\* not gone on yet.
PassAtAwait(timer) ==
    timer.run = "running" /\ timer.pass.status \in {"map", "null", "failed"}

\* A promise job of the engine is waiting to run: what follows an await
\* whose promise is settled, in a call, in a getRecordings made by
\* processRecordings or by the pass of the garbage collector, in
\* processRecordings, in getMediaSeekTime or in the pass. The jobs run
\* before the host serves a timer or an idle callback and before the clock
\* advances; the answers of remote calls that the host delivers in the same
\* task have their jobs among them.
JobPending ==
    \/ \E s \in Slots :
           \/ AtAwait(CallAt(s))
           \/ SeekAtAwait(CallAt(s))
           \/ \E i \in DOMAIN CallAt(s).inner :
                  InnerAtAwait(CallAt(s), i) \/ InnerReturned(CallAt(s), i)
    \/ AtAwait(gcTimer.pass)
    \/ PassAtAwait(gcTimer)

\* A caller makes a call whenever it likes, whether or not the calls
\* before have returned and whether or not their remote calls are in
\* flight. The model bounds the calls made and the calls that have not
\* returned or have remote calls in flight at once.
CanStart ==
    /\ callsLeft > 0
    /\ Cardinality({s \in Slots : \/ Waiting(CallAt(s)) # {}
                                  \/ CallAt(s).status = "pending"}) < MaxInFlight

\* getEvents up to the await of Promise.all: every processInstanceQuery has
\* run to its remote call or to its return. When several branches put a
\* cached result under the same key, the last of them stays.
StartGetEvents(query, useCache) ==
    /\ CanStart
    /\ LET instances == buildInstanceToCameraIDMapFromQuery(query.cameraIDs)
           cached(i) == CachedResult(requestCache, useCache,
                                     SubQuery(query, instances[i]), now)
           hits == {i \in DOMAIN instances : cached(i).type # "none"}
           pc == [i \in DOMAIN instances |->
                     IF i \in hits THEN "hit" ELSE "waiting"]
           req == [i \in DOMAIN instances |->
                      IF i \in hits THEN NoRequest
                      ELSE EventsNativeQuery(query, i, instances[i])]
       IN \E last \in (IF hits = {} THEN {""} ELSE hits) :
              Begin(NewCall("getEvents", query, useCache, pc, req,
                          IF hits = {} THEN EmptyOutput
                          ELSE OutputSet(EmptyOutput, EventsHitOutputID(last),
                                   EventsHitOutputKey(query,
                                       SubQuery(query, instances[last])),
                                   cached(last)),
                          EmptyMetadata))
    /\ callsLeft' = callsLeft - 1
    /\ UNCHANGED <<now, segCache, rangeVars, expiringVars, fnVars, backend>>

\* processInstanceQuery after its remote call answered (357-370): the
\* result is stored and put in the output map, and the branch ends.
RespondEvents(b) ==
    \E s \in Slots :
        LET c == CallAt(s) IN
            /\ c.op = "getEvents"
            /\ b \in Waiting(c)
            /\ LET instances ==
                       buildInstanceToCameraIDMapFromQuery(c.query.cameraIDs)
                   instanceQuery == SubQuery(c.query, instances[b])
                   result == EventsResult(b, c.req[b], now)
                   key == EventsStoreKey(c.query, instanceQuery)
               IN /\ Put(s, [c EXCEPT
                              !.pc[b] = "done",
                              !.wrote[b] = IF UseCache(c.useCache) THEN key
                                           ELSE NoQuery,
                              !.output = OutputSet(@, b, instanceQuery, result)])
                  /\ requestCache' =
                         IF UseCache(c.useCache)
                         THEN requestCacheSet(requestCache, key,
                                  [result EXCEPT !.cached = TRUE], result.expiry)
                         ELSE requestCache
            /\ UNCHANGED <<now, segCache, gcTimer, segDone, callsLeft,
                           rangeVars, expiringVars, fnVars, backend>>

(***************************************************************************)
(* getRecordings                                                           *)
(***************************************************************************)
\* The check of a branch without the test of the backend camera name.
HasCameraConfig(cameraID) ==
    getQueryableCameraConfig(cameraID).configured

\* A camera a recording or segment branch goes on with: it has a queryable
\* configuration and a backend camera name.
HasCameraName(cameraID) ==
    getQueryableCameraConfig(cameraID).camera_name # ""

RecordingsNativeQuery(cameraID) ==
    Request("recordings/summary",
            getQueryableCameraConfig(cameraID).client_id,
            {getQueryableCameraConfig(cameraID).camera_name}, Absent, Absent)

RecordingsResult(query, cameraID, request, date) ==
    Result("recording", request.instance_id,
           RecordingsOf(
               backend[getQueryableCameraConfig(cameraID).camera_name],
               query, cameraID),
           AddSeconds(date, RECORDING_SUMMARY_REQUEST_CACHE_MAX_AGE_SECONDS),
           FALSE)

\* The position processQuery of getRecordings reaches before it awaits.
RecordingsBranchStart(cache, useCache, subQuery, cameraID, date) ==
    IF CachedResult(cache, useCache, subQuery, date).type # "none" THEN "hit"
    ELSE IF ~HasCameraName(cameraID) THEN "skipped"
    ELSE "waiting"

\* getRecordings up to the await of Promise.all, for any caller.
GetRecordingsCall(cache, query, useCache, date) ==
    LET sub(c) == SubQuery(query, {c})
        pc == [c \in query.cameraIDs |->
                  RecordingsBranchStart(cache, useCache, sub(c), c, date)]
        req == [c \in query.cameraIDs |->
                   IF pc[c] = "waiting" THEN RecordingsNativeQuery(c)
                   ELSE NoRequest]
        hits == {c \in query.cameraIDs : pc[c] = "hit"}
        output == [c \in hits |->
                      [key |-> sub(c),
                       result |-> CachedResult(cache, useCache, sub(c), date)]]
    IN NewCall("getRecordings", query, useCache, pc, req, output,
               EmptyMetadata)

StartGetRecordings(query, useCache) ==
    /\ CanStart
    /\ Begin(GetRecordingsCall(requestCache, query, useCache, now))
    /\ callsLeft' = callsLeft - 1
    /\ UNCHANGED <<now, segCache, rangeVars, expiringVars, fnVars, backend>>

\* The query getMediaMetadata.processRecordings gives to getRecordings.
MetadataRecordingQuery(cameraIDs) ==
    Query("recording", cameraIDs, Absent, Absent, Absent)

\* The days of the recordings of a result, as processRecordings adds them.
RecordingDays(result) ==
    {formatDate(result.payload[i].startTime) : i \in 1..Len(result.payload)}

\* processQuery of getRecordings after its remote call answered (410-460),
\* in getRecordings itself or in the getRecordings that processRecordings
\* of getMediaMetadata made: the result is stored and put in the output
\* map of that getRecordings, and the branch ends.
RespondRecordings(b) ==
    \E s \in Slots :
        LET c == CallAt(s) IN
            /\ c.op \in {"getRecordings", "getMediaMetadata"}
            /\ b \in Waiting(c) \cap CameraIDs
            /\ LET baseQuery == IF c.op = "getRecordings" THEN c.query
                                ELSE MetadataRecordingQuery(c.query.cameraIDs)
                   query == SubQuery(baseQuery, {b})
                   result == RecordingsResult(query, b, c.req[b], now)
                   done == [c EXCEPT
                               !.pc[b] = "done",
                               !.wrote[b] = IF UseCache(c.useCache) THEN query
                                            ELSE NoQuery]
               IN /\ Put(s, IF c.op = "getRecordings"
                            THEN [done EXCEPT
                                     !.output = OutputSet(@, b, query, result)]
                            ELSE [done EXCEPT
                                     !.inner[InstanceOf(c, b)].output =
                                         OutputSet(@, b, query, result)])
                  /\ requestCache' =
                         IF UseCache(c.useCache)
                         THEN requestCacheSet(requestCache, query,
                                  [result EXCEPT !.cached = TRUE], result.expiry)
                         ELSE requestCache
            /\ UNCHANGED <<now, segCache, gcTimer, segDone, callsLeft,
                           rangeVars, expiringVars, fnVars, backend>>

(***************************************************************************)
(* getRecordingSegments                                                    *)
(***************************************************************************)
SegmentsNativeQuery(query, cameraID) ==
    Request("recordings/get",
            getQueryableCameraConfig(cameraID).client_id,
            {getQueryableCameraConfig(cameraID).camera_name},
            EpochSeconds(query.start), EpochSeconds(query.end))

SegmentsResult(cameraID, segments, cached) ==
    Result("recording-segments",
           getQueryableCameraConfig(cameraID).client_id, segments, Absent,
           cached)

\* Whether processQuery of getRecordingSegments always fetches, whatever
\* the Segment Cache holds.
SegmentsCachedNever(cache, useCache, cameraID, range) == FALSE

\* Whether processQuery of getRecordingSegments finds cachedSegments: the
\* Segment Cache is asked when caching is on.
SegmentsCached(cache, useCache, cameraID, range) ==
    UseCache(useCache) /\ segCacheCovered(cache, cameraID, range)

\* The position processQuery of getRecordingSegments reaches before it
\* awaits.
SegmentsBranchStart(cache, useCache, cameraID, range) ==
    IF ~HasCameraName(cameraID) THEN "skipped"
    ELSE IF SegmentsCached(cache, useCache, cameraID, range) THEN "hit"
    ELSE "waiting"

\* getRecordingSegments up to the await of Promise.all, for any caller:
\* seek holds the arguments of the getMediaSeekTime that makes the call,
\* if one does.
GetRecordingSegmentsCall(query, useCache, seek) ==
    /\ LET range == Range(query.start, query.end)
           pc == [c \in query.cameraIDs |->
                     SegmentsBranchStart(segCache, useCache, c, range)]
           req == [c \in query.cameraIDs |->
                      IF pc[c] = "waiting" THEN SegmentsNativeQuery(query, c)
                      ELSE NoRequest]
           hits == {c \in query.cameraIDs : pc[c] = "hit"}
           output == [c \in hits |->
                         [key |-> SubQuery(query, {c}),
                          result |-> SegmentsResult(c,
                                         segCacheGet(segCache, c), TRUE)]]
       IN Begin([NewCall("getRecordingSegments", query, useCache, pc, req,
                         output, EmptyMetadata) EXCEPT !.seek = seek])
    /\ callsLeft' = callsLeft - 1
    /\ UNCHANGED <<now, segCache, rangeVars, expiringVars>>

StartGetRecordingSegments(query, useCache) ==
    /\ CanStart
    /\ GetRecordingSegmentsCall(query, useCache, NoArg)
    /\ UNCHANGED <<fnVars, backend>>

\* processQuery of getRecordingSegments after its remote call answered
\* (520-532): the segments are added to the Segment Cache and put in the
\* output map, and the branch ends.
RespondSegments(b) ==
    \E s \in Slots :
        LET c == CallAt(s) IN
            /\ c.op = "getRecordingSegments"
            /\ b \in Waiting(c)
            /\ LET query == SubQuery(c.query, {b})
                   range == Range(query.start, query.end)
                   segments == BackendSegments(c.req[b])
               IN /\ segCache' = IF UseCache(c.useCache)
                                 THEN segCacheAdd(segCache, b, range, segments)
                                 ELSE segCache
                  /\ Put(s, [c EXCEPT
                              !.pc[b] = "done",
                              !.wrote[b] = IF UseCache(c.useCache) THEN query
                                           ELSE NoQuery,
                              !.output = OutputSet(@, b, query,
                                             SegmentsResult(b, segments, FALSE))])
            /\ UNCHANGED <<now, requestCache, gcTimer, segDone, callsLeft,
                           rangeVars, expiringVars, fnVars, backend>>

(***************************************************************************)
(* getMediaMetadata                                                        *)
(***************************************************************************)
SummaryNativeQuery(instanceID) ==
    Request("events/summary", instanceID, {}, Absent, Absent)

\* getMediaMetadata up to the await of allPromises: the cached result is
\* returned when there is one; else every instance of the query gets a
\* processEventSummary branch, named by the instance, and a
\* processRecordings whose getRecordings runs over the cameras of the
\* instance up to its own await, with branches named by the cameras.
StartGetMediaMetadata(query, useCache) ==
    /\ CanStart
    /\ IF UseCache(useCache) /\ requestCacheHas(requestCache, query, now)
       THEN /\ call' = [NewCall("getMediaMetadata", query, useCache,
                            [b \in {} |-> "done"], [b \in {} |-> NoRequest],
                            OutputSet(EmptyOutput, "caller", query,
                                requestCacheGet(requestCache, query, now)),
                            EmptyMetadata)
                        EXCEPT !.status = "map"]
            /\ earlier' = SelectSeq(Append(earlier, call), InProgress)
            /\ UNCHANGED <<requestCache, gcTimer, segDone>>
       ELSE LET instances ==
                    buildInstanceToCameraIDMapFromQuery(query.cameraIDs)
                cameras == UNION {instances[i] : i \in DOMAIN instances}
                sub(c) == SubQuery(MetadataRecordingQuery(cameras), {c})
                pc == [b \in DOMAIN instances \cup cameras |->
                          IF b \in cameras
                          THEN RecordingsBranchStart(requestCache, useCache,
                                                     sub(b), b, now)
                          ELSE "waiting"]
                req == [b \in DOMAIN pc |->
                           IF pc[b] # "waiting" THEN NoRequest
                           ELSE IF b \in cameras THEN RecordingsNativeQuery(b)
                           ELSE SummaryNativeQuery(b)]
                inner == [i \in DOMAIN instances |->
                             [status |-> "pending", error |-> "",
                              output |->
                                  [c \in {x \in instances[i] : pc[x] = "hit"} |->
                                      [key |-> sub(c),
                                       result |-> CachedResult(requestCache,
                                                      useCache, sub(c), now)]]]]
            IN Begin([NewCall("getMediaMetadata", query, useCache, pc, req,
                              EmptyOutput, EmptyMetadata)
                      EXCEPT !.inner = inner])
    /\ callsLeft' = callsLeft - 1
    /\ UNCHANGED <<now, segCache, rangeVars, expiringVars, fnVars, backend>>

\* processEventSummary after its remote call answered (746-764): the
\* entries of the cameras of the card are added to the metadata, and the
\* branch ends.
RespondEventSummary(b) ==
    \E s \in Slots :
        LET c == CallAt(s) IN
            /\ c.op = "getMediaMetadata"
            /\ b \in Waiting(c) \cap InstanceIDs
            /\ LET cameraNames ==
                       getFrigateCameraNamesForCameraIDs(InnerCameras(c, b))
                   entries == {e \in InstanceEventSummary(b) : e.camera \in cameraNames}
               IN Put(s, [c EXCEPT
                             !.pc[b] = "done",
                             !.meta = Metadata(
                                 @.what \cup ({e.label : e \in entries} \ {""}),
                                 @.where \cup UNION {e.zones : e \in entries},
                                 @.days \cup ({e.day : e \in entries} \ {""}),
                                 @.tags \cup UNION {e.sub_label : e \in entries})])
            /\ UNCHANGED <<now, requestCache, segCache, gcTimer, segDone,
                           callsLeft, rangeVars, expiringVars, fnVars, backend>>

\* What follows the await of the getRecordings that processRecordings made
\* for instance i (465-468): it returns its output map or null, or throws
\* the error that rejected its Promise.all.
ReturnInnerRecordings(i) ==
    \E s \in Slots :
        LET c == CallAt(s) IN
            /\ i \in DOMAIN c.inner
            /\ InnerAtAwait(c, i)
            /\ Put(s, [c EXCEPT !.inner[i].status =
                           IF c.inner[i].error # "" THEN "failed"
                           ELSE IF DOMAIN c.inner[i].output = {} THEN "null"
                           ELSE "map"])
            /\ UNCHANGED <<now, requestCache, segCache, gcTimer, segDone,
                           callsLeft, rangeVars, expiringVars, fnVars, backend>>

\* processRecordings of instance i after its await of getRecordings
\* (777-790): the days of the recordings are added to the metadata; when
\* getRecordings threw, processRecordings rejects and, unless a branch has
\* rejected before, allPromises with it.
ProcessRecordings(i) ==
    \E s \in Slots :
        LET c == CallAt(s) IN
            /\ i \in DOMAIN c.inner
            /\ InnerReturned(c, i)
            /\ Put(s, IF c.inner[i].status = "failed"
                      THEN [c EXCEPT !.inner[i].status = "rejected",
                                     !.error = IF @ = "" THEN c.inner[i].error
                                               ELSE @]
                      ELSE [c EXCEPT
                               !.inner[i].status = "joined",
                               !.meta.days = @ \cup UNION
                                   {RecordingDays(c.inner[i].output[x].result) :
                                       x \in DOMAIN c.inner[i].output}])
            /\ UNCHANGED <<now, requestCache, segCache, gcTimer, segDone,
                           callsLeft, rangeVars, expiringVars, fnVars, backend>>

(***************************************************************************)
(* What follows the await of Promise.all (allPromises): the call returns   *)
(* or throws; getMediaMetadata builds and stores its result before, and    *)
(* getRecordingSegments triggers the garbage collector.                    *)
(***************************************************************************)
\* The return of the output map whatever its size.
ReturnOutputAlways(c) == [c EXCEPT !.status = "map"]

\* return output.size ? output : null
ReturnOutput(c) ==
    [c EXCEPT !.status = IF DOMAIN c.output = {} THEN "null" ELSE "map"]

\* The result getMediaMetadata builds after allPromises (802-813).
MetadataResult(c, date) ==
    Result("metadata", "", c.meta,
           AddSeconds(date, MEDIA_METADATA_REQUEST_CACHE_AGE_SECONDS), FALSE)

\* output.set(query, result); return output (818-819)
ReturnMetadata(c, date) ==
    [c EXCEPT !.output = OutputSet(c.output, "caller", c.query,
                                   MetadataResult(c, date)),
              !.status = "map"]

\* The call c goes on after its await without an error: every branch has
\* ended and none has rejected.
Returns(c) == AtAwait(c) /\ c.error = ""

\* What the caller has of a call c that goes on after its await: the error
\* that rejected Promise.all, or what the operation returns.
Settle(c, date) ==
    IF ~AtAwait(c) THEN c
    ELSE IF c.error # "" THEN [c EXCEPT !.status = "failed"]
    ELSE IF c.op = "getMediaMetadata" THEN ReturnMetadata(c, date)
    ELSE ReturnOutput(c)

\* The Keyed Result Cache after the call goes on: getMediaMetadata stores
\* its result (815-817).
SettleCache(cache, c, date) ==
    IF Returns(c) /\ c.op = "getMediaMetadata" /\ UseCache(c.useCache)
    THEN requestCacheSet(cache, c.query,
             [MetadataResult(c, date) EXCEPT !.cached = TRUE],
             MetadataResult(c, date).expiry)
    ELSE cache

\* const recordingQuery = {cameraIDs: new Set(cameraIDs), type: Recording}
GcRecordingQuery(cameraIDs) ==
    Query("recording", cameraIDs, Absent, Absent, Absent)

\* The synchronous part of a pass of _garbageCollectSegments, up to the
\* await of getRecordings (830-843): the cameras of the Segment Cache are
\* read and getRecordings is called, with no engineOptions; it runs up to
\* its own await.
StartPass(timer, cache, segments, date) ==
    [timer EXCEPT
        !.run = "running",
        !.pass = GetRecordingsCall(cache,
                     GcRecordingQuery(segCacheGetCameraIDs(segments)),
                     "omitted", date)]

\* this._throttledSegmentGarbageCollector(hass, store) at date: the call
\* of the throttled function and, when the throttle invokes the collector
\* inside it, the synchronous part of the pass.
ThrottledSegmentGarbageCollector(timer, date, args, cache, segments) ==
    LET triggered == TriggerGc(timer, date, args) IN
    IF triggered.run = "due" THEN StartPass(triggered, cache, segments, date)
    ELSE triggered

\* runWhenIdleIfSupported(() => this._throttledSegmentGarbageCollector(hass,
\* store)): the trigger is made at once where the host has no idle
\* callbacks, else when the host is idle.
RunWhenIdleIfSupported(timer, date, cache, segments) ==
    IF timer.idleSupported
    THEN [timer EXCEPT !.idle = Append(@, date)]
    ELSE ThrottledSegmentGarbageCollector(timer, date, date, cache, segments)

\* The timer when getRecordingSegments triggers the garbage collector as
\* it goes on after its await, whether it returns or throws.
SettleTimerAfterFailure(timer, c, date, cache, segments) ==
    IF AtAwait(c) /\ c.op = "getRecordingSegments"
    THEN RunWhenIdleIfSupported(timer, date, cache, segments)
    ELSE timer

\* The timer after the call goes on: getRecordingSegments triggers the
\* garbage collector once Promise.all has resolved (541).
SettleTimer(timer, c, date, cache, segments) ==
    IF Returns(c) /\ c.op = "getRecordingSegments"
    THEN RunWhenIdleIfSupported(timer, date, cache, segments)
    ELSE timer

\* The history of cached segment calls that completed successfully.
SettleSegDone(done, c) ==
    IF Returns(c) /\ c.op = "getRecordingSegments" /\ UseCache(c.useCache)
    THEN done \cup {<<b, Range(c.query.start, c.query.end)>> :
                       b \in {x \in DOMAIN c.pc : c.pc[x] # "skipped"}}
    ELSE done

\* What follows the await of a call whose Promise.all (allPromises) is
\* settled (382, 468, 541-542, 802-819): the call throws the error of the
\* branch that rejected, or it returns; getMediaMetadata builds and stores
\* its result before it returns, getRecordingSegments triggers the garbage
\* collector.
Resume ==
    \E s \in Slots :
        LET c == CallAt(s) IN
            /\ AtAwait(c)
            /\ Put(s, Settle(c, now))
            /\ requestCache' = SettleCache(requestCache, c, now)
            /\ gcTimer' = SettleTimer(gcTimer, c, now, requestCache, segCache)
            /\ segDone' = SettleSegDone(segDone, c)
            /\ UNCHANGED <<now, segCache, callsLeft, rangeVars, expiringVars,
                           fnVars, backend>>

(***************************************************************************)
(* Failure of a remote call, and the clock.                                *)
(***************************************************************************)
\* A branch whose remote call threw is swallowed: the call goes on as if
\* the branch had returned.
AfterThrowSwallowed(c, b) == [c EXCEPT !.pc[b] = "failed"]

\* The remote call of branch b threw and the branches that still wait are
\* given up with it.
AfterThrowGivingUp(c, b) ==
    [c EXCEPT !.pc = [x \in DOMAIN c.pc |->
                         IF x = b \/ c.pc[x] = "waiting" THEN "failed"
                         ELSE c.pc[x]],
              !.error = IF @ = "" THEN b ELSE @]

\* The remote call of branch b threw: the branch rejects, and the
\* Promise.all it runs under, unless a branch has rejected before, rejects
\* with that error: that of the call, or that of the getRecordings that
\* processRecordings made. The other branches go on.
AfterThrow(c, b) ==
    IF c.op = "getMediaMetadata" /\ b \in CameraIDs
    THEN [c EXCEPT !.pc[b] = "failed",
                   !.inner[InstanceOf(c, b)].error = IF @ = "" THEN b ELSE @]
    ELSE [c EXCEPT !.pc[b] = "failed",
                   !.error = IF @ = "" THEN b ELSE @]

\* The remote call of a branch threw.
Throw(b) ==
    \E s \in Slots :
        LET c == CallAt(s) IN
            /\ b \in Waiting(c)
            /\ Put(s, AfterThrow(c, b))
            /\ UNCHANGED <<now, requestCache, segCache, gcTimer, segDone,
                           callsLeft, rangeVars, expiringVars, fnVars, backend>>

Tick ==
    /\ ~JobPending
    /\ now + TickMs <= MaxTicks * TickMs
    /\ now' = now + TickMs
    /\ UNCHANGED <<requestCache, segCache, gcTimer, call, earlier, callsLeft, segDone,
                   rangeVars, expiringVars, fnVars, backend>>

(***************************************************************************)
(* The federation engine: callers make their calls one after the other or *)
(* while calls made before are in progress, each with any query of the     *)
(* model's and any useCache option; the remote calls in flight answer or   *)
(* throw in any order.                                                     *)
(***************************************************************************)
EngineInit(calls) ==
    /\ now = 0
    /\ requestCache = [k \in {} |-> [value |-> NoResult, expires |-> 0]]
    /\ segCache = [c \in {} |-> [coverage |-> <<>>, segments |-> {}]]
    /\ gcTimer = NoTimer
    /\ call = NoCall
    /\ earlier = <<>>
    /\ callsLeft = calls
    /\ segDone = {}
    /\ backend = [n \in CameraNames |-> CameraRecordingSummary(n)]

Init == InitRangeSet /\ InitExpiringRangeSet /\ InitNoFn /\ EngineInit(MaxCalls)

\* The calls of one cache lifetime: the clock stands still.
Next ==
    \/ \E q \in EventQueries, u \in UseCacheOptions : StartGetEvents(q, u)
    \/ \E q \in RecordingQueries, u \in UseCacheOptions :
           StartGetRecordings(q, u)
    \/ \E q \in RecordingSegmentsQueries, u \in UseCacheOptions :
           StartGetRecordingSegments(q, u)
    \/ \E q \in MediaMetadataQueries, u \in UseCacheOptions :
           StartGetMediaMetadata(q, u)
    \/ \E b \in InstanceIDs : RespondEvents(b)
    \/ \E b \in CameraIDs : RespondRecordings(b)
    \/ \E b \in CameraIDs : RespondSegments(b)
    \/ \E b \in InstanceIDs : RespondEventSummary(b)
    \/ \E b \in InstanceIDs \cup CameraIDs : Throw(b)
    \/ \E i \in InstanceIDs : ReturnInnerRecordings(i)
    \/ \E i \in InstanceIDs : ProcessRecordings(i)
    \/ Resume

Spec == Init /\ [][Next]_vars

\* The event queries of a caller over time: the clock advances between and
\* during the calls, so that cached results expire.
InitEvents == InitRangeSet /\ InitExpiringRangeSet /\ InitNoFn /\ EngineInit(MaxEventCalls)

NextEvents ==
    \/ \E q \in EventModelQueries, u \in UseCacheOptions :
           StartGetEvents(q, u)
    \/ \E b \in InstanceIDs : RespondEvents(b)
    \/ \E b \in InstanceIDs : Throw(b)
    \/ Resume
    \/ Tick

SpecEvents == InitEvents /\ [][NextEvents]_vars

InitRange == InitRangeSet /\ InitExpiringRangeSet /\ InitNoFn /\ EngineInit(0)

\* MemoryRangeSet.add(range)
Add(range) ==
    /\ Cardinality(added \cup {range}) <= MaxAdds
    /\ ranges' = rangeSetAdd(ranges, range)
    /\ added' = added \cup {range}
    /\ lastOp' = "add"
    /\ UNCHANGED <<engineVars, expiringVars, fnVars>>

\* MemoryRangeSet.clear()
Clear ==
    /\ ranges' = <<>>
    /\ added' = {}
    /\ lastOp' = "clear"
    /\ UNCHANGED <<engineVars, expiringVars, fnVars>>

NextRange ==
    \/ \E range \in AllRanges : Add(range)
    \/ Clear

SpecRange == InitRange /\ [][NextRange]_vars

(***************************************************************************)
(* ExpiringMemoryRangeSet: the expiring coverage cache. The clock it reads *)
(* with new Date() is `now`.                                               *)
(***************************************************************************)
\* Instants of the expiring model range over 0..MaxSpan, and at most
\* MaxExpiringAdds intervals are added between two clear() calls.
MaxSpan == 2
MaxExpiringAdds == 2

ExpiringRange(s, e, expires) == [start |-> s, end |-> e, expires |-> expires]

\* The intervals given to add(): any interval of the model's instants with
\* any expiry on the ticks of the clock.
ExpiringRanges ==
    {ExpiringRange(s, e, k * TickMs) :
        s \in 0..MaxSpan, e \in 0..MaxSpan, k \in 0..MaxTicks}
    \ {r \in [start : 0..MaxSpan, end : 0..MaxSpan,
              expires : {k * TickMs : k \in 0..MaxTicks}] : r.start > r.end}

\* hasCoverage with an entry still counted at its expires instant.
expiringHasCoverageInclusive(rs, range, date) ==
    \E i \in 1..Len(rs) :
        date <= rs[i].expires /\ rangeIsEntirelyContained(rs[i], range)

\* ExpiringMemoryRangeSet.hasCoverage at the instant `date`.
expiringHasCoverage(rs, range, date) ==
    \E i \in 1..Len(rs) :
        date < rs[i].expires /\ rangeIsEntirelyContained(rs[i], range)

NotExpired(range, date) == date < range.expires

\* ExpiringMemoryRangeSet._expireOldRanges
RECURSIVE expireOldRanges(_, _)
expireOldRanges(rs, date) ==
    IF rs = <<>> THEN <<>>
    ELSE IF NotExpired(Head(rs), date)
         THEN <<Head(rs)>> \o expireOldRanges(Tail(rs), date)
         ELSE expireOldRanges(Tail(rs), date)

\* ExpiringMemoryRangeSet.add on a stored sequence rs: push, then expire.
expiringAdd(rs, range, date) == expireOldRanges(Append(rs, range), date)

\* ExpiringMemoryRangeSet.add(range)
ExpiringAdd(range) ==
    /\ range \notin expAdded
    /\ Cardinality(expAdded) < MaxExpiringAdds
    /\ expRanges' = expiringAdd(expRanges, range, now)
    /\ expAdded' = expAdded \cup {range}
    /\ UNCHANGED <<engineVars, rangeVars, fnVars>>

\* ExpiringMemoryRangeSet.clear()
ExpiringClear ==
    /\ expRanges' = <<>>
    /\ expAdded' = {}
    /\ UNCHANGED <<engineVars, rangeVars, fnVars>>

InitExpiring ==
    InitRangeSet /\ InitExpiringRangeSet /\ InitNoFn /\ EngineInit(0)

NextExpiring ==
    \/ \E range \in ExpiringRanges : ExpiringAdd(range)
    \/ ExpiringClear
    \/ Tick

SpecExpiring == InitExpiring /\ [][NextExpiring]_vars

(***************************************************************************)
(* The range algebra applied to drawn arguments: compressRanges to a list  *)
(* of intervals and a tolerance, and again to its own result; the two      *)
(* predicates to a pair of intervals.                                      *)
(***************************************************************************)
\* The intervals of the lists lie on a grid of half seconds, 0..MaxStep
\* steps from the epoch; a list has at most MaxLen intervals and the
\* tolerance is at most MaxTolerance seconds.
MaxStep == 3
MaxLen == 3
MaxTolerance == 1
StepMs == 1000 \div 2

GridRanges ==
    {Range(r.start * StepMs, r.end * StepMs) :
        r \in {x \in [start : 0..MaxStep, end : 0..MaxStep] :
                  x.start <= x.end}}

RangeLists == UNION {[1..n -> GridRanges] : n \in 0..MaxLen}

CompressInputs ==
    [fn : {"compressRanges"}, ranges : RangeLists,
     toleranceSeconds : 0..MaxTolerance]

\* compressRanges(ranges, toleranceSeconds)
ApplyCompressRanges ==
    /\ fnArg.fn = "compressRanges"
    /\ fnOut.status = "none"
    /\ fnOut' = [status |-> "returned", pass |-> 1, first |-> <<>>,
                 value |-> compressRanges(fnArg.ranges,
                                          fnArg.toleranceSeconds)]
    /\ UNCHANGED <<fnArg, engineVars, rangeVars, expiringVars>>

\* compressRanges(compressRanges(ranges, toleranceSeconds), toleranceSeconds)
ApplyCompressRangesAgain ==
    /\ fnArg.fn = "compressRanges"
    /\ fnOut.status = "returned"
    /\ fnOut.pass = 1
    /\ fnOut' = [status |-> "returned", pass |-> 2, first |-> fnOut.value,
                 value |-> compressRanges(fnOut.value,
                                          fnArg.toleranceSeconds)]
    /\ UNCHANGED <<fnArg, engineVars, rangeVars, expiringVars>>

InitCompress ==
    /\ InitRangeSet /\ InitExpiringRangeSet /\ EngineInit(0)
    /\ fnArg \in CompressInputs
    /\ fnOut = NoOut

NextCompress == ApplyCompressRanges \/ ApplyCompressRangesAgain

SpecCompress == InitCompress /\ [][NextCompress]_vars

RangePairInputs == [fn : {"rangePair"}, a : AllRanges, b : AllRanges]

\* rangeIsEntirelyContained(a, b), and hasCoverage(b) of a MemoryRangeSet
\* that holds a alone.
ApplyRangeIsEntirelyContained ==
    /\ fnArg.fn = "rangePair"
    /\ fnOut.status = "none"
    /\ fnOut' = [status |-> "returned", fn |-> "rangeIsEntirelyContained",
                 value |-> rangeIsEntirelyContained(fnArg.a, fnArg.b),
                 other |-> hasCoverage(<<fnArg.a>>, fnArg.b)]
    /\ UNCHANGED <<fnArg, engineVars, rangeVars, expiringVars>>

\* rangesOverlap(a, b) and rangesOverlap(b, a)
ApplyRangesOverlap ==
    /\ fnArg.fn = "rangePair"
    /\ fnOut.status = "none"
    /\ fnOut' = [status |-> "returned", fn |-> "rangesOverlap",
                 value |-> rangesOverlap(fnArg.a, fnArg.b),
                 other |-> rangesOverlap(fnArg.b, fnArg.a)]
    /\ UNCHANGED <<fnArg, engineVars, rangeVars, expiringVars>>

InitRangePair ==
    /\ InitRangeSet /\ InitExpiringRangeSet /\ EngineInit(0)
    /\ fnArg \in RangePairInputs
    /\ fnOut = NoOut

NextRangePair == ApplyRangeIsEntirelyContained \/ ApplyRangesOverlap

SpecRangePair == InitRangePair /\ [][NextRangePair]_vars

(***************************************************************************)
(* getMediaSeekTime and _getSeekTimeInSegments                             *)
(***************************************************************************)
\* fromUnixTime(seconds)
fromUnixTime(seconds) == seconds * 1000

\* null, or a number of seconds.
SeekNull == [isNull |-> TRUE, seconds |-> 0]
SeekSeconds(seconds) == [isNull |-> FALSE, seconds |-> seconds]

\* The loop of _getSeekTimeInSegments over the segments left.
RECURSIVE seekWalk(_, _, _, _)
seekWalk(segments, startTime, targetTime, seekMilliseconds) ==
    IF segments = <<>> THEN seekMilliseconds
    ELSE LET segmentStart == fromUnixTime(Head(segments).start_time)
             segmentEnd == fromUnixTime(Head(segments).end_time)
             start == IF segmentStart < startTime THEN startTime
                      ELSE segmentStart
             end == IF segmentEnd > targetTime THEN targetTime ELSE segmentEnd
         IN IF segmentStart > targetTime THEN seekMilliseconds
            ELSE seekWalk(Tail(segments), startTime, targetTime,
                          seekMilliseconds + end - start)

\* _getSeekTimeInSegments. The instants of the model are whole seconds, so
\* that seekMilliseconds / 1000 is a whole number.
getSeekTimeInSegments(startTime, targetTime, segments) ==
    IF Len(segments) = 0 THEN SeekNull
    ELSE SeekSeconds(seekWalk(segments, startTime, targetTime, 0) \div 1000)

\* The segments of a result as an array: oldest first.
RECURSIVE SegmentsInOrder(_)
SegmentsInOrder(segments) ==
    IF segments = {} THEN <<>>
    ELSE LET first == CHOOSE sg \in segments :
                          \A other \in segments :
                              \/ sg.start_time < other.start_time
                              \/ /\ sg.start_time = other.start_time
                                 /\ sg.end_time <= other.end_time
         IN <<first>> \o SegmentsInOrder(segments \ {first})

\* A media item: its camera and its start and end time, which may be
\* absent.
Media(cameraID, startTime, endTime) ==
    [cameraID |-> cameraID, startTime |-> startTime, endTime |-> endTime]

\* The first test of getMediaSeekTime without the test of the end.
SeekTargetOutsideStartOnly(media, target) ==
    \/ media.startTime = Absent
    \/ media.endTime = Absent
    \/ target < media.startTime

\* !start || !end || target < start || target > end
SeekTargetOutside(media, target) ==
    \/ media.startTime = Absent
    \/ media.endTime = Absent
    \/ target < media.startTime
    \/ target > media.endTime

SeekQuery(media) ==
    Query("recording-segments", {media.cameraID}, media.startTime,
          media.endTime, Absent)

\* getMediaSeekTime up to its return of null or to the await of
\* getRecordingSegments. fnArg and fnOut hold the arguments and the
\* result of the getMediaSeekTime that returned last; queried tells
\* whether it made a segment query.
StartGetMediaSeekTime(media, target, useCache) ==
    /\ CanStart
    /\ UNCHANGED backend
    /\ LET seek == [fn |-> "getMediaSeekTime", media |-> media,
                    target |-> target]
       IN IF SeekTargetOutside(media, target)
          THEN /\ fnArg' = seek
               /\ fnOut' = [status |-> "returned", value |-> SeekNull,
                            queried |-> FALSE]
               /\ callsLeft' = callsLeft - 1
               /\ UNCHANGED <<now, requestCache, segCache, gcTimer, call,
                              earlier, segDone, rangeVars, expiringVars>>
          ELSE /\ GetRecordingSegmentsCall(SeekQuery(media), useCache, seek)
               /\ UNCHANGED fnVars

\* What getMediaSeekTime returns once the getRecordingSegments c it
\* awaited has returned or thrown.
MediaSeekTimeReturn(c) ==
    IF c.status = "failed"
    THEN [status |-> "threw", value |-> SeekNull, queried |-> TRUE]
    ELSE IF c.status = "null"
    THEN [status |-> "returned", value |-> SeekNull, queried |-> TRUE]
    ELSE LET first == CHOOSE id \in DOMAIN c.output : TRUE IN
         [status |-> "returned",
          value |-> getSeekTimeInSegments(
                        c.seek.media.startTime, c.seek.target,
                        SegmentsInOrder(c.output[first].result.payload)),
          queried |-> TRUE]

\* getMediaSeekTime after the getRecordingSegments it awaited returned or
\* threw.
ReturnMediaSeekTime ==
    \E s \in Slots :
        LET c == CallAt(s) IN
            /\ SeekAtAwait(c)
            /\ fnArg' = c.seek
            /\ fnOut' = MediaSeekTimeReturn(c)
            /\ call' = IF s = 0 THEN [c EXCEPT !.seek = NoArg] ELSE call
            /\ earlier' = IF s = 0 THEN earlier
                          ELSE [earlier EXCEPT ![s] = [c EXCEPT !.seek = NoArg]]
            /\ UNCHANGED <<now, requestCache, segCache, gcTimer, callsLeft,
                           segDone, backend, rangeVars, expiringVars>>

\* The media items and targets of the callers.
SeekMedia ==
    {Media(c, w[1], w[2]) :
        c \in {"a1", "b1", "nn"},
        w \in {<<Absent, Absent>>, <<0, 2 * HourMs>>, <<HourMs, 2 * HourMs>>}}

SeekTargets == {0, HourMs + 300 * SecondMs, 3 * HourMs}

InitSeek ==
    InitRangeSet /\ InitExpiringRangeSet /\ InitNoFn /\ EngineInit(MaxCalls)

NextSeek ==
    \/ \E media \in SeekMedia, target \in SeekTargets, u \in UseCacheOptions :
           StartGetMediaSeekTime(media, target, u)
    \/ \E b \in CameraIDs : RespondSegments(b)
    \/ \E b \in CameraIDs : Throw(b)
    \/ Resume
    \/ ReturnMediaSeekTime

SpecSeek == InitSeek /\ [][NextSeek]_vars

\* _getSeekTimeInSegments applied to drawn arguments: instants every ten
\* minutes, 0..MaxStep steps from the epoch, and at most MaxLen segments
\* ordered from the oldest to the youngest.
SegmentStepSeconds == 10 * 60

GridSegments ==
    {Segment(r.start * SegmentStepSeconds, r.end * SegmentStepSeconds) :
        r \in {x \in [start : 0..MaxStep, end : 0..MaxStep] :
                  x.start <= x.end}}

SegmentLists ==
    {l \in UNION {[1..n -> GridSegments] : n \in 0..MaxLen} :
        \A i \in 1..(Len(l) - 1) : l[i].start_time <= l[i + 1].start_time}

SeekTimeInputs ==
    {[fn |-> "getSeekTimeInSegments",
      startTime |-> fromUnixTime(s * SegmentStepSeconds),
      targetTime |-> fromUnixTime(t * SegmentStepSeconds),
      segments |-> l] :
        s \in 0..MaxStep, t \in 0..MaxStep, l \in SegmentLists}

\* _getSeekTimeInSegments(startTime, targetTime, segments)
ApplyGetSeekTimeInSegments ==
    /\ fnArg.fn = "getSeekTimeInSegments"
    /\ fnOut.status = "none"
    /\ fnOut' = [status |-> "returned",
                 value |-> getSeekTimeInSegments(fnArg.startTime,
                               fnArg.targetTime, fnArg.segments)]
    /\ UNCHANGED <<fnArg, engineVars, rangeVars, expiringVars>>

InitSeekTime ==
    /\ InitRangeSet /\ InitExpiringRangeSet /\ EngineInit(0)
    /\ fnArg \in SeekTimeInputs
    /\ fnOut = NoOut

NextSeekTime == ApplyGetSeekTimeInSegments

SpecSeekTime == InitSeekTime /\ [][NextSeekTime]_vars

(***************************************************************************)
(* The recordings getRecordings.processQuery makes of a summary, applied   *)
(* to drawn arguments: a summary of one day whose hours, 0..MaxHour, come  *)
(* in any order, a window whose bounds may be absent and a limit that may  *)
(* be absent.                                                              *)
(***************************************************************************)
MaxHour == 2

HourLists ==
    {l \in UNION {[1..n -> 0..MaxHour] : n \in 0..(MaxHour + 1)} :
        \A i, j \in 1..Len(l) : i # j => l[i] # l[j]}

SummaryOf(hours) ==
    <<[day |-> 0, hours |-> [i \in 1..Len(hours) |-> HourData(hours[i], i)]]>>

RecordingsInputs ==
    {[fn |-> "getRecordings", hours |-> l,
      query |-> Query("recording", {"a1"}, start, end, limit)] :
        l \in HourLists,
        start \in {Absent} \cup {k * (HourMs \div 2) : k \in 0..MaxHour},
        end \in {Absent} \cup {k * HourMs - 1 : k \in 1..(MaxHour + 1)}
                         \cup {k * HourMs : k \in 1..(MaxHour + 1)},
        limit \in {Absent} \cup 0..(MaxHour + 1)}

\* getRecordings.processQuery from the summary it awaited to its result.
ApplyRecordingsOf ==
    /\ fnArg.fn = "getRecordings"
    /\ fnOut.status = "none"
    /\ fnOut' = [status |-> "returned",
                 value |-> RecordingsOf(SummaryOf(fnArg.hours), fnArg.query,
                                        "a1")]
    /\ UNCHANGED <<fnArg, engineVars, rangeVars, expiringVars>>

InitRecordings ==
    /\ InitRangeSet /\ InitExpiringRangeSet /\ EngineInit(0)
    /\ fnArg \in RecordingsInputs
    /\ fnOut = NoOut

NextRecordings == ApplyRecordingsOf

SpecRecordings == InitRecordings /\ [][NextRecordings]_vars

(***************************************************************************)
(* generateMediaFromEvents: the media made of the events of one result,    *)
(* applied to drawn queries and results.                                   *)
(***************************************************************************)
MaxEvents == 2

\* store.getCameraConfigEntries(): the configured cameras in the order of
\* the configuration.
CameraConfigEntries == <<"a1", "a2", "b1", "nn", "bird">>

\* null, where a camera id is expected.
NoCameraID == ""

\* The loop of _getCameraIDMatch over the configured cameras.
RECURSIVE FirstCameraMatch(_, _, _)
FirstCameraMatch(entries, instanceID, cameraName) ==
    IF entries = <<>> THEN NoCameraID
    ELSE LET cameraConfig == getCameraConfig(Head(entries)) IN
         IF /\ cameraConfig.client_id = instanceID
            /\ cameraConfig.camera_name = cameraName
         THEN Head(entries)
         ELSE FirstCameraMatch(Tail(entries), instanceID, cameraName)

\* The match without the shortcut for a query of one camera.
getCameraIDMatchAlways(query, instanceID, cameraName) ==
    FirstCameraMatch(CameraConfigEntries, instanceID, cameraName)

\* _getCameraIDMatch.
getCameraIDMatch(query, instanceID, cameraName) ==
    IF Cardinality(query.cameraIDs) = 1
    THEN CHOOSE c \in query.cameraIDs : TRUE
    ELSE FirstCameraMatch(CameraConfigEntries, instanceID, cameraName)

\* An event query as generateMediaFromEvents reads it. hasClip and
\* hasSnapshot are "true", "false" or "omitted".
EventMediaQuery(cameraIDs, hasClip, hasSnapshot) ==
    [cameraIDs |-> cameraIDs, hasClip |-> hasClip, hasSnapshot |-> hasSnapshot]

\* The media type with the snapshot preferred when no type is asked for.
EventMediaTypeSnapshotFirst(query, event) ==
    IF /\ query.hasClip # "true"
       /\ query.hasSnapshot # "true"
       /\ (event.has_clip \/ event.has_snapshot)
    THEN IF event.has_snapshot THEN "snapshot" ELSE "clip"
    ELSE IF query.hasSnapshot = "true" /\ event.has_snapshot THEN "snapshot"
    ELSE IF query.hasClip = "true" /\ event.has_clip THEN "clip"
    ELSE "none"

\* The media type generateMediaFromEvents resolves for an event; "none" is
\* null.
EventMediaType(query, event) ==
    IF /\ query.hasClip # "true"
       /\ query.hasSnapshot # "true"
       /\ (event.has_clip \/ event.has_snapshot)
    THEN IF event.has_clip THEN "clip" ELSE "snapshot"
    ELSE IF query.hasSnapshot = "true" /\ event.has_snapshot THEN "snapshot"
    ELSE IF query.hasClip = "true" /\ event.has_clip THEN "clip"
    ELSE "none"

\* FrigateViewMediaFactory.createEventViewMedia.
EventViewMedia(mediaType, cameraID, event) ==
    [mediaType |-> mediaType, cameraID |-> cameraID, event |-> event]

\* The loop of generateMediaFromEvents without the test of the camera's
\* configuration.
RECURSIVE MediaOfEventsAnyCamera(_, _, _)
MediaOfEventsAnyCamera(query, instanceID, events) ==
    IF events = <<>> THEN <<>>
    ELSE LET event == Head(events)
             cameraID == getCameraIDMatch(query, instanceID, event.camera)
             mediaType == EventMediaType(query, event)
             rest == MediaOfEventsAnyCamera(query, instanceID, Tail(events))
         IN IF cameraID = NoCameraID THEN rest
            ELSE IF mediaType = "none" THEN rest
            ELSE <<EventViewMedia(mediaType, cameraID, event)>> \o rest

\* The loop of generateMediaFromEvents over results.events.
RECURSIVE MediaOfEvents(_, _, _)
MediaOfEvents(query, instanceID, events) ==
    IF events = <<>> THEN <<>>
    ELSE LET event == Head(events)
             cameraID == getCameraIDMatch(query, instanceID, event.camera)
             mediaType == EventMediaType(query, event)
             rest == MediaOfEvents(query, instanceID, Tail(events))
         IN IF cameraID = NoCameraID THEN rest
            ELSE IF ~getQueryableCameraConfig(cameraID).configured THEN rest
            ELSE IF mediaType = "none" THEN rest
            ELSE <<EventViewMedia(mediaType, cameraID, event)>> \o rest

\* generateMediaFromEvents: null for results that are not event results.
generateMediaFromEvents(query, results) ==
    IF results.type # "event"
    THEN [isNull |-> TRUE, media |-> <<>>]
    ELSE [isNull |-> FALSE,
          media |-> MediaOfEvents(query, results.instanceID, results.events)]

\* The events a result may hold: of a camera of the card, of a camera that
\* is not one ("yard"), of the birdseye camera, with or without clip and
\* snapshot. The id of an event is its place in the result.
EventShapes ==
    {[camera |-> c, has_clip |-> hc, has_snapshot |-> hs] :
        c \in {"front", "back", "yard", "birdseye"},
        hc \in BOOLEAN, hs \in BOOLEAN}

EventLists ==
    {[i \in 1..Len(l) |->
         Event(i, l[i].camera, l[i].has_clip, l[i].has_snapshot)] :
        l \in UNION {[1..n -> EventShapes] : n \in 0..MaxEvents}}

MediaCameraSets == {{}, {"a1"}, {"u"}, {"a1", "a2"}, {"a2", "b1"}}

MediaInputs ==
    {[fn |-> "generateMediaFromEvents",
      query |-> EventMediaQuery(cs, hc, hs),
      results |-> [type |-> "event", instanceID |-> i, events |-> es]] :
        cs \in MediaCameraSets, hc \in UseCacheOptions,
        hs \in UseCacheOptions, i \in InstanceIDs, es \in EventLists}
    \cup
    {[fn |-> "generateMediaFromEvents",
      query |-> EventMediaQuery(cs, "omitted", "omitted"),
      results |-> [type |-> "recording", instanceID |-> "i1",
                   events |-> <<>>]] : cs \in MediaCameraSets}

ApplyGenerateMediaFromEvents ==
    /\ fnArg.fn = "generateMediaFromEvents"
    /\ fnOut.status = "none"
    /\ fnOut' = [status |-> "returned",
                 value |-> generateMediaFromEvents(fnArg.query, fnArg.results)]
    /\ UNCHANGED <<fnArg, engineVars, rangeVars, expiringVars>>

InitMedia ==
    /\ InitRangeSet /\ InitExpiringRangeSet /\ EngineInit(0)
    /\ fnArg \in MediaInputs
    /\ fnOut = NoOut

NextMedia == ApplyGenerateMediaFromEvents

SpecMedia == InitMedia /\ [][NextMedia]_vars

(***************************************************************************)
(* _garbageCollectSegments: a reconciliation pass. It asks getRecordings   *)
(* for the recordings of every camera of the Segment Cache and, once they  *)
(* are all there, expires the cached segments whose hour is not among      *)
(* them. The pass in progress is gcTimer.pass, a getRecordings call.       *)
(***************************************************************************)
DayMs == 24 * HourMs

\* Date.getDate() and Date.getHours() of an instant of December 1969 or
\* January 1970: the day of the month and the hour of the day.
getDate(date) ==
    LET day == date \div DayMs IN IF day >= 0 THEN day + 1 ELSE 32 + day

getHours(date) == (date % DayMs) \div HourMs

\* getHourID(cameraID, startTime): `${cameraID}/${getDate()}/${getHours()}`
getHourID(cameraID, startTime) ==
    <<cameraID, getDate(startTime), getHours(startTime)>>

\* The hour ids of the recordings of a result.
GoodHours(result) ==
    {getHourID(result.payload[i].cameraID, result.payload[i].startTime) :
        i \in 1..Len(result.payload)}

\* The segments of a camera the predicate given to expireMatches holds of.
GcMatching(segments, cameraID, goodHours) ==
    {sg \in segments :
        getHourID(cameraID, fromUnixTime(sg.start_time)) \notin goodHours}

\* The loop of _garbageCollectSegments over the results of getRecordings:
\* every result expires segments of the one camera of its query.
GcExpire(cache, output) ==
    [c \in DOMAIN cache |->
        LET ids == {id \in DOMAIN output : c \in output[id].key.cameraIDs} IN
        IF ids = {} THEN cache[c]
        ELSE LET id == CHOOSE x \in ids : TRUE IN
             segCacheExpireMatches(cache, c,
                 GcMatching(cache[c].segments, c,
                            GoodHours(output[id].result)))[c]]

\* _garbageCollectSegments called directly, up to its await.
InvokeGarbageCollector ==
    /\ gcTimer.pass.status = "none"
    /\ gcTimer' = StartPass(gcTimer, requestCache, segCache, now)
    /\ UNCHANGED <<now, requestCache, segCache, call, earlier, callsLeft,
                   segDone, backend, rangeVars, expiringVars, fnVars>>

\* processQuery of the getRecordings of the pass after its remote call
\* answered (410-460): the result is stored and put in the output map.
GcRespond(b) ==
    /\ b \in Waiting(gcTimer.pass)
    /\ LET p == gcTimer.pass
           query == SubQuery(p.query, {b})
           result == RecordingsResult(query, b, p.req[b], now)
       IN /\ gcTimer' = [gcTimer EXCEPT !.pass =
                            [p EXCEPT !.pc[b] = "done",
                                      !.wrote[b] = query,
                                      !.output = OutputSet(@, b, query, result)]]
          /\ requestCache' = requestCacheSet(requestCache, query,
                                 [result EXCEPT !.cached = TRUE], result.expiry)
    /\ UNCHANGED <<now, segCache, call, earlier, callsLeft, segDone, backend,
                   rangeVars, expiringVars, fnVars>>

\* The remote call of a branch of the getRecordings of the pass threw.
GcThrow(b) ==
    /\ b \in Waiting(gcTimer.pass)
    /\ gcTimer' = [gcTimer EXCEPT !.pass = AfterThrow(gcTimer.pass, b)]
    /\ UNCHANGED <<now, requestCache, segCache, call, earlier, callsLeft,
                   segDone, backend, rangeVars, expiringVars, fnVars>>

\* What follows the await of the getRecordings of the pass (465-468): it
\* returns its output map or null, or throws.
GcReturnRecordings ==
    /\ AtAwait(gcTimer.pass)
    /\ gcTimer' = [gcTimer EXCEPT !.pass = Settle(gcTimer.pass, now)]
    /\ UNCHANGED <<now, requestCache, segCache, call, earlier, callsLeft,
                   segDone, backend, rangeVars, expiringVars, fnVars>>

\* The pass after its await of getRecordings (844-869): it expires the
\* segments, unless getRecordings returned null or threw, and ends.
ResumePass ==
    /\ PassAtAwait(gcTimer)
    /\ gcTimer' = [gcTimer EXCEPT !.run = "idle"]
    /\ segCache' = IF gcTimer.pass.status = "map"
                   THEN GcExpire(segCache, gcTimer.pass.output)
                   ELSE segCache
    /\ UNCHANGED <<now, requestCache, call, earlier, callsLeft, segDone,
                   backend, rangeVars, expiringVars, fnVars>>

(***************************************************************************)
(* One pass over a Segment Cache and a backend drawn from the following:   *)
(* a1 has cached segments of 1 January 1970 00h and 01h, of 20 January     *)
(* 00h and of 20 December 1969 00h, b1 of 1 January 00h; the backend has   *)
(* recordings of any of these hours.                                       *)
(***************************************************************************)
DaySeconds == DayMs \div 1000
\* The days of 20 January 1970 and 20 December 1969, counted from the epoch.
Jan20 == 20 - 1
Dec20 == 20 - 32

GcSegments ==
    {Segment(0, 600), Segment(3600, 4200),
     Segment(Jan20 * DaySeconds + 600, Jan20 * DaySeconds + 1200),
     Segment(Dec20 * DaySeconds + 600, Dec20 * DaySeconds + 1200)}

GcCoverage == <<Range(Dec20 * DayMs, (Jan20 + 1) * DayMs)>>

GcCaches ==
    {[c \in cs |-> [coverage |-> GcCoverage,
                    segments |-> IF c = "a1" THEN sa ELSE sb]] :
        cs \in {{"a1"}, {"a1", "b1"}},
        sa \in SUBSET GcSegments,
        sb \in {{}, {Segment(1800, 2400)}}}

\* The summaries of the backend: 1 January with hours 00 and 01,
\* 20 January and 20 December with hour 00, each of them there or not.
GcSummaries ==
    {SelectSeq(<<[day |-> 0, hours |-> h1],
                 [day |-> Jan20 * DayMs, hours |-> h2],
                 [day |-> Dec20 * DayMs, hours |-> h3]>>,
               LAMBDA d : d.hours # <<>>) :
        h1 \in {<<>>, <<HourData(0, 0)>>, <<HourData(1, 0)>>,
                <<HourData(0, 0), HourData(1, 0)>>},
        h2 \in {<<>>, <<HourData(0, 0)>>},
        h3 \in {<<>>, <<HourData(0, 0)>>}}

InitGcPass ==
    /\ InitRangeSet /\ InitExpiringRangeSet /\ InitNoFn
    /\ now = 0
    /\ requestCache = [k \in {} |-> [value |-> NoResult, expires |-> 0]]
    /\ segCache \in GcCaches
    /\ gcTimer = NoTimer
    /\ call = NoCall
    /\ earlier = <<>>
    /\ callsLeft = 0
    /\ segDone = {}
    /\ backend \in {[n \in CameraNames |->
                        IF n = "front" THEN s
                        ELSE CameraRecordingSummary(n)] : s \in GcSummaries}

NextGcPass ==
    \/ InvokeGarbageCollector
    \/ \E b \in CameraIDs : GcRespond(b)
    \/ \E b \in CameraIDs : GcThrow(b)
    \/ GcReturnRecordings
    \/ ResumePass

SpecGcPass == InitGcPass /\ [][NextGcPass]_vars

(***************************************************************************)
(* The garbage collector over time: callers ask for recording segments,    *)
(* every call that succeeds triggers the throttled collector, the clock    *)
(* advances and the timer of the throttle expires. The clock does not pass *)
(* the instant a timer is due without the timer expiring, but a call may   *)
(* be served at that instant before the timer is. A pass has ended before  *)
(* the clock advances.                                                     *)
(***************************************************************************)
\* The clock advances by GcTickMs, a quarter of the wait of the throttle;
\* callers make at most MaxGcCalls calls, none after MaxGcTicks ticks.
MaxGcCalls == 4
MaxGcTicks == 8
GcTickMs == GcWaitMs \div 4

GcSegmentsQueries ==
    {Query("recording-segments", cams, 0, 2 * HourMs, Absent) :
        cams \in {{"a1"}, {"u"}}}

GcStartGetRecordingSegments(query, useCache) ==
    /\ now <= MaxGcTicks * GcTickMs
    /\ StartGetRecordingSegments(query, useCache)

\* The host is idle: the oldest trigger that waits is made.
RunIdle ==
    /\ ~JobPending
    /\ gcTimer.idle # <<>>
    /\ gcTimer' = ThrottledSegmentGarbageCollector(
                      [gcTimer EXCEPT !.idle = Tail(@)], now,
                      Head(gcTimer.idle), requestCache, segCache)
    /\ UNCHANGED <<now, requestCache, segCache, call, earlier, callsLeft, segDone,
                   backend, rangeVars, expiringVars, fnVars>>

\* The timer of the throttle expires: timerExpired() and, on the trailing
\* edge, the synchronous part of the pass it invokes.
TimerExpired ==
    /\ ~JobPending
    /\ gcTimer.pending
    /\ now >= gcTimer.fireAt
    /\ LET expired == TimerExpiredAt(gcTimer, now)
       IN gcTimer' = IF expired.run = "due"
                     THEN StartPass(expired, requestCache, segCache, now)
                     ELSE expired
    /\ UNCHANGED <<now, requestCache, segCache, call, earlier, callsLeft,
                   segDone, backend, rangeVars, expiringVars, fnVars>>

\* The clock advances by ms while no promise job waits, no remote call is
\* in flight and no trigger waits for the host to be idle, up to the
\* instant the timer is due and, once no timer is pending, up to last.
AdvanceBy(ms, last) ==
    /\ ~JobPending
    /\ ~InFlight /\ Waiting(gcTimer.pass) = {}
    /\ gcTimer.idle = <<>>
    /\ now + ms <= last \/ gcTimer.pending
    /\ gcTimer.pending => now + ms <= gcTimer.fireAt
    /\ now' = now + ms
    /\ UNCHANGED <<requestCache, segCache, gcTimer, call, earlier, callsLeft, segDone,
                   backend, rangeVars, expiringVars, fnVars>>

Advance == AdvanceBy(GcTickMs, MaxGcTicks * GcTickMs)

InitGc ==
    /\ InitRangeSet /\ InitExpiringRangeSet /\ InitNoFn
    /\ now = 0
    /\ requestCache = [k \in {} |-> [value |-> NoResult, expires |-> 0]]
    /\ segCache = [c \in {} |-> [coverage |-> <<>>, segments |-> {}]]
    /\ gcTimer \in {[NoTimer EXCEPT !.idleSupported = i] : i \in BOOLEAN}
    /\ call = NoCall
    /\ earlier = <<>>
    /\ callsLeft = MaxGcCalls
    /\ segDone = {}
    /\ backend = [n \in CameraNames |-> CameraRecordingSummary(n)]

NextGc ==
    \/ \E q \in GcSegmentsQueries : GcStartGetRecordingSegments(q, "omitted")
    \/ \E b \in CameraIDs : RespondSegments(b)
    \/ \E b \in CameraIDs : Throw(b)
    \/ Resume
    \/ RunIdle
    \/ TimerExpired
    \/ \E b \in CameraIDs : GcRespond(b)
    \/ \E b \in CameraIDs : GcThrow(b)
    \/ GcReturnRecordings
    \/ ResumePass
    \/ Advance

SpecGc == InitGc /\ [][NextGc]_vars

\* The timer expires when it is due, the promise jobs run, the host is
\* idle now and then, remote calls answer or throw and the clock advances.
SpecGcFair ==
    /\ SpecGc
    /\ WF_vars(TimerExpired)
    /\ WF_vars(RunIdle)
    /\ WF_vars(Resume)
    /\ WF_vars(GcReturnRecordings)
    /\ WF_vars(ResumePass)
    /\ WF_vars(Advance)
    /\ WF_vars(\E b \in CameraIDs : RespondSegments(b) \/ Throw(b))
    /\ WF_vars(\E b \in CameraIDs : GcRespond(b) \/ GcThrow(b))

(***************************************************************************)
(* The garbage collector and a backend that changes: the backend records   *)
(* and expires hours of camera front while callers ask for recordings and  *)
(* for recording segments of a1 and a pass runs.                           *)
(***************************************************************************)
MaxLiveCalls == 3

\* The summary of a backend camera that has recordings of the given hours
\* of 1 January 1970.
LiveSummary(hours) ==
    IF hours = {} THEN <<>>
    ELSE <<[day |-> 0,
            hours |-> IF hours = {0} THEN <<HourData(0, 0)>>
                      ELSE IF hours = {1} THEN <<HourData(1, 0)>>
                      ELSE <<HourData(0, 0), HourData(1, 0)>>]>>

\* The instants the hours of a summary start at.
SummaryHours(summary) ==
    UNION {{summary[i].day + summary[i].hours[j].hour * HourMs :
               j \in 1..Len(summary[i].hours)} : i \in 1..Len(summary)}

\* The hours of 1 January the backend has of camera front.
LiveHours == {h \in 0..1 : h * HourMs \in SummaryHours(backend["front"])}

\* The backend starts the recording of an hour of camera front.
BackendRecordHour(h) ==
    /\ h \notin LiveHours
    /\ backend' = [backend EXCEPT !["front"] = LiveSummary(LiveHours \cup {h})]
    /\ UNCHANGED <<now, requestCache, segCache, gcTimer, call, earlier, callsLeft,
                   segDone, rangeVars, expiringVars, fnVars>>

\* The backend expires the recording of an hour of camera front.
BackendExpireHour(h) ==
    /\ h \in LiveHours
    /\ backend' = [backend EXCEPT !["front"] = LiveSummary(LiveHours \ {h})]
    /\ UNCHANGED <<now, requestCache, segCache, gcTimer, call, earlier, callsLeft,
                   segDone, rangeVars, expiringVars, fnVars>>

InitGcLive ==
    /\ InitRangeSet /\ InitExpiringRangeSet /\ InitNoFn
    /\ now = 0
    /\ requestCache = [k \in {} |-> [value |-> NoResult, expires |-> 0]]
    /\ segCache = [c \in {} |-> [coverage |-> <<>>, segments |-> {}]]
    /\ gcTimer = NoTimer
    /\ call = NoCall
    /\ earlier = <<>>
    /\ callsLeft = MaxLiveCalls
    /\ segDone = {}
    /\ backend \in {[n \in CameraNames |->
                        IF n = "front" THEN LiveSummary(hs)
                        ELSE CameraRecordingSummary(n)] :
                       hs \in SUBSET (0..1)}

\* The queries of the callers: the recordings of a1 and the segments of
\* its first two hours.
LiveRecordingQuery == GcRecordingQuery({"a1"})
LiveSegmentsQuery ==
    Query("recording-segments", {"a1"}, 0, 2 * HourMs, Absent)

NextGcLive ==
    \/ \E u \in {"omitted", "false"} :
           StartGetRecordings(LiveRecordingQuery, u)
    \/ RespondRecordings("a1")
    \/ StartGetRecordingSegments(LiveSegmentsQuery, "omitted")
    \/ RespondSegments("a1")
    \/ Throw("a1")
    \/ Resume
    \/ InvokeGarbageCollector
    \/ GcRespond("a1")
    \/ GcThrow("a1")
    \/ GcReturnRecordings
    \/ ResumePass
    \/ \E h \in 0..1 : BackendRecordHour(h)
    \/ \E h \in 0..1 : BackendExpireHour(h)
    \/ Tick

SpecGcLive == InitGcLive /\ [][NextGcLive]_vars

(***************************************************************************)
(* The triggers of the garbage collector: callers ask for the recording    *)
(* segments of any of the camera sets, with any useCache option, on a host *)
(* with or without idle callbacks; the remote calls answer or throw in any *)
(* order and the host is idle now and then. The clock advances by the wait *)
(* of the throttle, so that a call returns as the timer of the call before *)
(* is due, and the timer expires and the passes run as in SpecGc.          *)
(***************************************************************************)
\* Without a timer pending the clock advances up to MaxWaits waits.
MaxWaits == 1

AdvanceWait == AdvanceBy(GcWaitMs, MaxWaits * GcWaitMs)

InitTrigger ==
    /\ InitRangeSet /\ InitExpiringRangeSet /\ InitNoFn
    /\ now = 0
    /\ requestCache = [k \in {} |-> [value |-> NoResult, expires |-> 0]]
    /\ segCache = [c \in {} |-> [coverage |-> <<>>, segments |-> {}]]
    /\ gcTimer \in {[NoTimer EXCEPT !.idleSupported = i] : i \in BOOLEAN}
    /\ call = NoCall
    /\ earlier = <<>>
    /\ callsLeft = MaxCalls
    /\ segDone = {}
    /\ backend = [n \in CameraNames |-> CameraRecordingSummary(n)]

NextTrigger ==
    \/ \E q \in RecordingSegmentsQueries, u \in UseCacheOptions :
           StartGetRecordingSegments(q, u)
    \/ \E b \in CameraIDs : RespondSegments(b)
    \/ \E b \in CameraIDs : Throw(b)
    \/ Resume
    \/ RunIdle
    \/ TimerExpired
    \/ \E b \in CameraIDs : GcRespond(b)
    \/ \E b \in CameraIDs : GcThrow(b)
    \/ GcReturnRecordings
    \/ ResumePass
    \/ AdvanceWait

SpecTrigger == InitTrigger /\ [][NextTrigger]_vars

(***************************************************************************)
(* The four operations with and without the caches, over time: callers ask *)
(* for the events, the recordings, the recording segments and the metadata *)
(* of a1 and b1 with any useCache option, on a host with or without idle   *)
(* callbacks, while the clock advances by the wait of the throttle, the    *)
(* timer expires and the passes of the garbage collector run.              *)
(***************************************************************************)
MaxUncachedCalls == 2

\* The camera sets of the events, recordings and segments asked for, and
\* those of the metadata.
UncachedCameraSets == {{"a1"}, {"a1", "b1"}}
UncachedMetadataSets == {{"a1"}}

UncachedEventQueries ==
    {Query("event", cams, Absent, Absent, Absent) :
        cams \in UncachedCameraSets}
UncachedRecordingQueries ==
    {Query("recording", cams, Absent, Absent, Absent) :
        cams \in UncachedCameraSets}
UncachedSegmentsQueries ==
    {Query("recording-segments", cams, 0, 2 * HourMs, Absent) :
        cams \in UncachedCameraSets}
UncachedMetadataQueries ==
    {Query("media-metadata", cams, Absent, Absent, Absent) :
        cams \in UncachedMetadataSets}

InitUncached ==
    /\ InitRangeSet /\ InitExpiringRangeSet /\ InitNoFn
    /\ now = 0
    /\ requestCache = [k \in {} |-> [value |-> NoResult, expires |-> 0]]
    /\ segCache = [c \in {} |-> [coverage |-> <<>>, segments |-> {}]]
    /\ gcTimer \in {[NoTimer EXCEPT !.idleSupported = i] : i \in BOOLEAN}
    /\ call = NoCall
    /\ earlier = <<>>
    /\ callsLeft = MaxUncachedCalls
    /\ segDone = {}
    /\ backend = [n \in CameraNames |-> CameraRecordingSummary(n)]

NextUncached ==
    \/ \E q \in UncachedEventQueries, u \in UseCacheOptions :
           StartGetEvents(q, u)
    \/ \E q \in UncachedRecordingQueries, u \in UseCacheOptions :
           StartGetRecordings(q, u)
    \/ \E q \in UncachedSegmentsQueries, u \in UseCacheOptions :
           StartGetRecordingSegments(q, u)
    \/ \E q \in UncachedMetadataQueries, u \in UseCacheOptions :
           StartGetMediaMetadata(q, u)
    \/ \E b \in InstanceIDs : RespondEvents(b)
    \/ \E b \in CameraIDs : RespondRecordings(b)
    \/ \E b \in CameraIDs : RespondSegments(b)
    \/ \E b \in InstanceIDs : RespondEventSummary(b)
    \/ \E b \in InstanceIDs \cup CameraIDs : Throw(b)
    \/ \E i \in InstanceIDs : ReturnInnerRecordings(i)
    \/ \E i \in InstanceIDs : ProcessRecordings(i)
    \/ Resume
    \/ RunIdle
    \/ TimerExpired
    \/ \E b \in CameraIDs : GcRespond(b)
    \/ \E b \in CameraIDs : GcThrow(b)
    \/ GcReturnRecordings
    \/ ResumePass
    \/ AdvanceWait

SpecUncached == InitUncached /\ [][NextUncached]_vars

(***************************************************************************)
(* A call and its retry: callers ask for the recordings or the recording   *)
(* segments of a camera set with caching on, again and again, while remote *)
(* calls answer or throw in any order and the clock advances past the      *)
(* expiry of the results stored.                                           *)
(***************************************************************************)
MaxRetryCalls == 3

RetryCameraSets == {{"a1"}, {"a1", "b1"}}

RetryRecordingQueries ==
    {Query("recording", cams, Absent, Absent, Absent) :
        cams \in RetryCameraSets}
RetrySegmentsQueries ==
    {Query("recording-segments", cams, 0, 2 * HourMs, Absent) :
        cams \in RetryCameraSets}

InitRetry ==
    /\ InitRangeSet /\ InitExpiringRangeSet /\ InitNoFn
    /\ EngineInit(MaxRetryCalls)

NextRetry ==
    \/ \E q \in RetryRecordingQueries, u \in {"true", "omitted"} :
           StartGetRecordings(q, u)
    \/ \E q \in RetrySegmentsQueries, u \in {"true", "omitted"} :
           StartGetRecordingSegments(q, u)
    \/ \E b \in CameraIDs : RespondRecordings(b)
    \/ \E b \in CameraIDs : RespondSegments(b)
    \/ \E b \in CameraIDs : Throw(b)
    \/ Resume
    \/ Tick

SpecRetry == InitRetry /\ [][NextRetry]_vars

(***************************************************************************)
(* favoriteMedia and retainEvent: the retain request of an event and the   *)
(* favorite flag of its media. The call in progress is fnOut: the media,   *)
(* the requests sent to the backend, the response and the error thrown.    *)
(***************************************************************************)
NoResponse == [answered |-> FALSE, success |-> FALSE]
NoError == [kind |-> "none"]

\* FrigateViewMediaClassifier.isFrigateEvent(media)
isFrigateEvent(media) == media.mediaType \in {"clip", "snapshot"}

\* The request retainEvent builds.
RetainRequest(clientID, eventID, retain) ==
    [type |-> "smarteyes-shop1/event/retain", instance_id |-> clientID,
     event_id |-> eventID, retain |-> retain]

\* retainEvent after the response without the test of response.success.
retainEventUnchecked(request, response) == NoError

\* retainEvent after the response: the error it throws, if any.
retainEvent(request, response) ==
    IF ~response.success
    THEN [kind |-> "FrigateCardError", message |-> "error.failed_retain",
          context |-> [request |-> request, response |-> response]]
    ELSE NoError

\* media.setFavorite(favorite)
setFavorite(media, favorite) ==
    [media EXCEPT !.favorite = IF favorite THEN "true" ELSE "false"]

FavoriteMedia ==
    {[mediaType |-> t, id |-> i, favorite |-> f] :
        t \in {"clip", "snapshot", "recording"}, i \in {"e1", "e2"},
        f \in UseCacheOptions}

FavoriteInputs ==
    {[fn |-> "favoriteMedia", clientID |-> c, media |-> m, favorite |-> f] :
        c \in InstanceIDs, m \in FavoriteMedia, f \in BOOLEAN}

\* favoriteMedia up to the await of retainEvent's request.
StartFavoriteMedia ==
    /\ fnArg.fn = "favoriteMedia"
    /\ fnOut.status = "none"
    /\ fnOut' =
          IF ~isFrigateEvent(fnArg.media)
          THEN [status |-> "returned", media |-> fnArg.media,
                requests |-> <<>>, response |-> NoResponse,
                error |-> NoError]
          ELSE [status |-> "pending", media |-> fnArg.media,
                requests |-> <<RetainRequest(fnArg.clientID, fnArg.media.id,
                                             fnArg.favorite)>>,
                response |-> NoResponse, error |-> NoError]
    /\ UNCHANGED <<fnArg, engineVars, rangeVars, expiringVars>>

\* The backend answers the retain request; retainEvent and favoriteMedia
\* run to their end.
RespondRetain(success) ==
    /\ fnArg.fn = "favoriteMedia"
    /\ fnOut.status = "pending"
    /\ LET response == [answered |-> TRUE, success |-> success]
           error == retainEvent(fnOut.requests[1], response)
       IN fnOut' =
             IF error # NoError
             THEN [fnOut EXCEPT !.status = "thrown", !.response = response,
                                !.error = error]
             ELSE [fnOut EXCEPT !.status = "returned",
                                !.response = response,
                                !.media = setFavorite(@, fnArg.favorite)]
    /\ UNCHANGED <<fnArg, engineVars, rangeVars, expiringVars>>

\* The request itself fails: homeAssistantWSRequest throws.
ThrowRetain ==
    /\ fnArg.fn = "favoriteMedia"
    /\ fnOut.status = "pending"
    /\ fnOut' = [fnOut EXCEPT !.status = "thrown",
                              !.error = [kind |-> "request"]]
    /\ UNCHANGED <<fnArg, engineVars, rangeVars, expiringVars>>

InitFavorite ==
    /\ InitRangeSet /\ InitExpiringRangeSet /\ EngineInit(0)
    /\ fnArg \in FavoriteInputs
    /\ fnOut = NoOut

NextFavorite ==
    \/ StartFavoriteMedia
    \/ \E success \in BOOLEAN : RespondRetain(success)
    \/ ThrowRetain

SpecFavorite == InitFavorite /\ [][NextFavorite]_vars

(***************************************************************************)
(* Claims about the federation engine.                                     *)
(***************************************************************************)
\* A step in which a caller makes a call.
IsStart == callsLeft' # callsLeft

\* The call of slot s after a step in which no caller makes a call.
CallAfter(s) == IF s = 0 THEN call' ELSE earlier'[s]

\* The slots of the calls that take the step: the call a caller makes, or
\* the call one of whose branches finishes.
Acting == IF IsStart THEN {0} ELSE {s \in Slots : CallAfter(s) # CallAt(s)}

\* The call of slot s after the step, whoever takes it.
Then(s) == IF IsStart THEN call' ELSE CallAfter(s)

\* The cameras of a set that are configured, are not the birdseye camera
\* and have a backend camera name.
QueryableCameras(cameraIDs) ==
    {c \in cameraIDs : /\ getCameraConfig(c).configured
                       /\ getCameraConfig(c).camera_name # "birdseye"
                       /\ getCameraConfig(c).camera_name # ""}

\* C1: with caching enabled, once a getRecordingSegments call for camera c
\* over range R has completed successfully, a later call for c over R or a
\* range inside R issues no remote call for c and returns c's entry with
\* cached: true; the remote calls of a call are as many as its queryable
\* cameras whose range is not covered.
C1_SegmentCacheShortCircuit ==
    [][(IsStart /\ call'.op = "getRecordingSegments"
           /\ UseCache(call'.useCache)) =>
          LET range == Range(call'.query.start, call'.query.end) IN
          /\ \A c \in call'.query.cameraIDs :
                 (\E d \in segDone :
                      d[1] = c /\ d[2].start <= range.start
                               /\ range.end <= d[2].end) =>
                     /\ c \notin RemoteCalls(call')
                     /\ c \in DOMAIN call'.output
                     /\ call'.output[c].result.cached
          /\ Cardinality(RemoteCalls(call')) =
                 Cardinality({c \in QueryableCameras(call'.query.cameraIDs) :
                                 ~segCacheCovered(segCache, c, range)})
      ]_vars

\* A call over a part of a range fetched before for a1: a1 is answered from
\* the cache while b1, not covered, is being fetched.
C1_Witness ==
    /\ call.op = "getRecordingSegments"
    /\ call.useCache = "omitted"
    /\ call.query.cameraIDs = {"a1", "b1"}
    /\ Range(call.query.start, call.query.end) = Range(600 * SecondMs, HourMs)
    /\ <<"a1", Range(0, 2 * HourMs)>> \in segDone
    /\ call.pc["a1"] = "hit" /\ call.output["a1"].result.cached
    /\ call.pc["b1"] = "waiting"

\* C2: in getEvents the key under which a branch stores its result is the
\* sub-query it looked up, so that the same event query, repeated before
\* the results of the first call expire, issues no remote call.
C2_EventStoreKeyIsLookupKey ==
    [][/\ call'.op = "getEvents" =>
              \A b \in DOMAIN call'.pc :
                  call'.wrote[b] # NoQuery =>
                      call'.wrote[b] =
                          SubQuery(call'.query,
                              buildInstanceToCameraIDMapFromQuery(
                                  call'.query.cameraIDs)[b])
       /\ (/\ IsStart
           /\ call.op = "getEvents" /\ call.status = "map"
           /\ UseCache(call.useCache)
           /\ call'.op = "getEvents" /\ call'.query = call.query
           /\ UseCache(call'.useCache)
           /\ \A id \in DOMAIN call.output :
                  now < call.output[id].result.expiry)
          => RemoteCalls(call') = {}
      ]_vars

\* C3: getEvents issues one remote call per instance of the query that has
\* no cached result, and the map it returns has one entry per instance,
\* fetched or cached.
C3_OneEntryPerInstance ==
    (call.op = "getEvents" /\ call.status = "map") =>
        LET instances ==
                buildInstanceToCameraIDMapFromQuery(call.query.cameraIDs)
            hits == {b \in DOMAIN call.pc : call.pc[b] = "hit"}
        IN /\ RemoteCalls(call) = DOMAIN instances \ hits
           /\ Cardinality(DOMAIN call.output) = Cardinality(DOMAIN instances)

\* C4: within one getEvents, getRecordings or getRecordingSegments call no
\* two branches write the same cache key or the same entry of the output
\* map.
C4_BranchesWriteDisjointKeys ==
    call.op \in {"getEvents", "getRecordings", "getRecordingSegments"} =>
        /\ \A b1, b2 \in DOMAIN call.pc :
               (b1 # b2 /\ call.wrote[b1] # NoQuery) =>
                   call.wrote[b1] # call.wrote[b2]
        /\ Cardinality(DOMAIN call.output) =
               Cardinality({b \in DOMAIN call.pc :
                               call.pc[b] \in {"hit", "done"}})

\* Whether a call that returned had a sub-query issued or answered from the
\* cache.
Answered(c) ==
    \/ \E b \in DOMAIN c.pc : c.pc[b] \in {"hit", "done"}
    \/ \E id \in DOMAIN c.output : c.output[id].result.cached

\* C5 as claimed: each of the four operations returns null exactly when no
\* sub-query was issued or answered from the cache, never an empty map, and
\* null for an empty camera set or one of unconfigured cameras only.
C5_NullIffNothingAnswered ==
    call.status \in {"map", "null"} =>
        /\ (call.status = "null") <=> ~Answered(call)
        /\ call.status = "map" => DOMAIN call.output # {}
        /\ call.query.cameraIDs \cap ConfiguredCameraIDs = {} =>
               call.status = "null"

\* C5 as amended: getEvents, getRecordings and getRecordingSegments return
\* null exactly when no sub-query was issued or answered from the cache,
\* never an empty map, and null for an empty camera set or one of
\* unconfigured cameras only; getMediaMetadata never returns null: it
\* returns a map of exactly one entry, keyed by the query.
C5_NullIffNothingAnsweredButMetadata ==
    \A s \in Slots :
        LET fc == CallAt(s) IN
            fc.status \in {"map", "null"} =>
                IF fc.op = "getMediaMetadata"
                THEN /\ fc.status = "map"
                     /\ DOMAIN fc.output = {"caller"}
                     /\ fc.output["caller"].key = fc.query
                ELSE /\ (fc.status = "null") <=> ~Answered(fc)
                     /\ fc.status = "map" => DOMAIN fc.output # {}
                     /\ fc.query.cameraIDs \cap ConfiguredCameraIDs = {} =>
                            fc.status = "null"

\* getMediaMetadata over an empty camera set has returned a map, and it
\* was not answered from the cache.
C5_Witness ==
    /\ call.op = "getMediaMetadata"
    /\ call.query.cameraIDs = {}
    /\ call.status = "map"
    /\ ~call.output["caller"].result.cached

\* The branches of a call whose remote call threw.
FailedBranches(c) == {b \in DOMAIN c.pc : c.pc[b] = "failed"}

\* C6: when the remote call of a branch of getEvents, getRecordings or
\* getRecordingSegments throws, the call fails with the error thrown (that
\* of the first branch to throw), whatever the other branches do, and it
\* returns no map: from the step in which the branch throws the rejection
\* of the call is what waits to run after its await, the call goes on to
\* fail with that error and to nothing else, the error never changes, and
\* no request of a branch is made again.
C6_FailsAsAWhole ==
    [][\A s \in Acting :
          LET fc == Then(s) IN
          fc.op \in {"getEvents", "getRecordings", "getRecordingSegments"} =>
              /\ fc.status \in {"map", "null"} => FailedBranches(fc) = {}
              /\ FailedBranches(fc) # {} =>
                     /\ fc.error \in FailedBranches(fc)
                     /\ fc.status \in {"pending", "failed"}
                     /\ fc.status = "pending" => AtAwait(fc)
              /\ FailedBranches(fc) = {} =>
                     fc.error = "" /\ fc.status # "failed"
              /\ ~IsStart =>
                     LET bc == CallAt(s) IN
                     /\ bc.error # "" => fc.error = bc.error
                     /\ (bc.error = "" /\ fc.error # "") =>
                            /\ FailedBranches(bc) = {}
                            /\ bc.pc[fc.error] = "waiting"
                     /\ \A b \in DOMAIN bc.pc :
                            /\ fc.req[b] = bc.req[b]
                            /\ bc.pc[b] = "failed" => fc.pc[b] = "failed"
                     /\ (bc.error # "" /\ fc.status # bc.status) =>
                            /\ fc.status = "failed"
                            /\ fc.output = bc.output
      ]_vars

\* A segment call has failed with the error of b1 although a1 was answered
\* from the cache.
C6_Witness ==
    /\ call.op = "getRecordingSegments"
    /\ call.query.cameraIDs = {"a1", "b1"}
    /\ call.pc["a1"] = "hit"
    /\ call.pc["b1"] = "failed"
    /\ call.status = "failed" /\ call.error = "b1"

\* Whether the cache holds what branch b of call c stored under its key.
Stored(c, b) ==
    IF c.op = "getRecordingSegments"
    THEN segCacheCovered(segCache', b, Range(c.query.start, c.query.end))
    ELSE c.wrote[b] \in DOMAIN requestCache'

\* C7: with useCache: false an operation neither reads nor writes the
\* caches: no branch is answered from the cache, no result has cached:
\* true and every step of the call leaves the caches as they are, the
\* step in which getRecordingSegments returns and its trigger invokes a
\* pass of the garbage collector included; with useCache omitted the
\* caches are read and written as with useCache: true.
C7_UseCacheFalseLeavesCaches ==
    [][\A s \in Acting :
          /\ (Then(s).op # "none" /\ Then(s).useCache = "false") =>
                 /\ requestCache' = requestCache
                 /\ segCache' = segCache
                 /\ \A b \in DOMAIN Then(s).pc : Then(s).pc[b] # "hit"
                 /\ \A id \in DOMAIN Then(s).output :
                        ~Then(s).output[id].result.cached
          /\ (Then(s).op # "none" /\ Then(s).useCache = "omitted") =>
                 \A b \in DOMAIN Then(s).pc :
                     (/\ Then(s).pc[b] = "done"
                      /\ Then(s).op = "getMediaMetadata" => b \in CameraIDs) =>
                         (Then(s).wrote[b] # NoQuery /\ Stored(Then(s), b))
      ]_vars

\* A getRecordingSegments call with useCache: false has fetched the
\* segments of a1 although the Segment Cache covers its range, and has
\* returned an hour after the first trigger: its trigger invoked a pass
\* inside the call, and both caches are as they were.
C7_Witness ==
    /\ call.op = "getRecordingSegments"
    /\ call.useCache = "false"
    /\ call.query.cameraIDs = {"a1"}
    /\ call.pc["a1"] = "done"
    /\ call.status = "map"
    /\ ~call.output["a1"].result.cached
    /\ segCacheCovered(segCache, "a1",
                       Range(call.query.start, call.query.end))
    /\ now = GcWaitMs
    /\ gcTimer.passes = <<[at |-> now, args |-> now, sync |-> TRUE]>>
    /\ gcTimer.run = "running"

\* C8: getRecordings and getRecordingSegments issue at most one remote call
\* per camera, and the map returned has exactly one entry per queryable
\* camera, keyed by the caller's query with that camera alone.
C8_OneEntryPerCamera ==
    \A s \in Slots :
        LET fc == CallAt(s) IN
            fc.op \in {"getRecordings", "getRecordingSegments"} =>
                LET queryable == QueryableCameras(fc.query.cameraIDs) IN
                /\ RemoteCalls(fc) \subseteq queryable
                /\ fc.status \in {"map", "null"} =>
                       /\ DOMAIN fc.output = queryable
                       /\ \A c \in queryable :
                              fc.output[c].key = [fc.query EXCEPT !.cameraIDs = {c}]
                       /\ fc.status = "null" <=> queryable = {}

\* getRecordings over a camera, a camera without a backend name, the
\* birdseye camera and an unconfigured camera returned one entry.
C8_Witness ==
    /\ call.op = "getRecordings"
    /\ call.query.cameraIDs = {"a1", "nn", "bird", "u"}
    /\ call.query.start = 0
    /\ call.status = "map"
    /\ DOMAIN call.output = {"a1"}
    /\ call.output["a1"].key.cameraIDs = {"a1"}
    /\ call.output["a1"].key.end = call.query.end

(***************************************************************************)
(* Claims about the plain coverage cache.                                  *)
(***************************************************************************)

\* C9: after add(X), hasCoverage(Y) is true for every Y inside X, and stays
\* true after any further adds until the next clear; after clear,
\* hasCoverage is false for every range.
C9_CoverageKept ==
    /\ \A X \in added : \A Y \in AllRanges :
           (X.start <= Y.start /\ Y.end <= X.end) => hasCoverage(ranges, Y)
    /\ lastOp = "clear" => \A Y \in AllRanges : ~hasCoverage(ranges, Y)

\* A range added earlier has been merged with two later ones, one
\* overlapping it and one apart from it, and is still covered.
C9_Witness ==
    /\ lastOp = "add"
    /\ Range(1, 2) \in added /\ Range(2, 3) \in added /\ Range(4, 4) \in added
    /\ Len(ranges) = 2
    /\ hasCoverage(ranges, Range(1, 2))

\* C10: after every add the stored intervals are sorted ascending by start,
\* each has start <= end, and consecutive ones neither overlap nor touch.
C10_SortedDisjoint ==
    lastOp = "add" =>
        /\ \A i \in 1..Len(ranges) : ranges[i].start <= ranges[i].end
        /\ \A i \in 1..(Len(ranges) - 1) :
               /\ ranges[i].start < ranges[i + 1].start
               /\ ranges[i].end < ranges[i + 1].start

\* Touching and overlapping ranges were added and merged into one, beside
\* a separate one.
C10_Witness ==
    /\ lastOp = "add"
    /\ Range(0, 1) \in added /\ Range(1, 2) \in added /\ Range(4, 4) \in added
    /\ ranges = <<Range(0, 2), Range(4, 4)>>

(***************************************************************************)
(* Claims about the expiring coverage cache.                               *)
(***************************************************************************)
\* C11: over any adds and clock advances since the last clear,
\* hasCoverage(Y) at the instant t is true exactly when some added interval
\* contains Y entirely and t is before the expires instant of that
\* interval, whatever other intervals expired or were dropped by an add.
C11_ExpiringCoverage ==
    \A Y \in {r \in [start : 0..MaxSpan, end : 0..MaxSpan] :
                 r.start <= r.end} :
        expiringHasCoverage(expRanges, Y, now) <=>
            \E X \in expAdded : /\ X.start <= Y.start
                                /\ Y.end <= X.end
                                /\ now < X.expires

\* An interval expired and was dropped by the add of an overlapping one
\* that expires later, whose coverage is kept.
C11_Witness ==
    /\ now = TickMs
    /\ expAdded = {ExpiringRange(0, 1, TickMs), ExpiringRange(0, 2, 2 * TickMs)}
    /\ expRanges = <<ExpiringRange(0, 2, 2 * TickMs)>>
    /\ expiringHasCoverage(expRanges, Range(0, 1), now)
    /\ ~expiringHasCoverage(<<ExpiringRange(0, 1, TickMs)>>, Range(0, 1), now)

(***************************************************************************)
(* Claims about the range algebra.                                         *)
(***************************************************************************)
ToSet(seq) == {seq[i] : i \in 1..Len(seq)}

\* C12: compressRanges is idempotent: compressing its own result with the
\* same tolerance gives the same set of intervals.
C12_CompressIdempotent ==
    (fnArg.fn = "compressRanges" /\ fnOut.status = "returned"
        /\ fnOut.pass = 2) =>
        /\ ToSet(fnOut.value) = ToSet(fnOut.first)
        /\ Len(fnOut.value) = Len(fnOut.first)

\* Two intervals a second apart were merged by a tolerance of one second,
\* and the result was compressed again.
C12_Witness ==
    /\ fnArg.fn = "compressRanges"
    /\ fnArg.toleranceSeconds = 1
    /\ fnArg.ranges = <<Range(2 * StepMs, 3 * StepMs), Range(0, 0)>>
    /\ fnOut.status = "returned" /\ fnOut.pass = 2
    /\ fnOut.first = <<Range(0, 3 * StepMs)>>
    /\ fnOut.value = <<Range(0, 3 * StepMs)>>

\* Whether the grid instant k, or the stretch between the grid instants k
\* and k + 1, lies in the union of the intervals of rs.
InstantIn(rs, k) ==
    \E i \in 1..Len(rs) : rs[i].start <= k * StepMs /\ k * StepMs <= rs[i].end

StretchIn(rs, k) ==
    \E i \in 1..Len(rs) :
        rs[i].start <= k * StepMs /\ (k + 1) * StepMs <= rs[i].end

\* The number of connected components of the union of rs.
Components(rs) ==
    Cardinality({k \in 0..MaxStep :
                    InstantIn(rs, k) /\ (k = 0 \/ ~StretchIn(rs, k - 1))})

Swap(seq, i) ==
    [j \in 1..Len(seq) |->
        IF j = i THEN seq[i + 1] ELSE IF j = i + 1 THEN seq[i] ELSE seq[j]]

\* C13: at tolerance 0 the intervals compressRanges returns have the union
\* of the input, neither more nor less, are sorted by start, do not overlap
\* or touch, are as many as the connected components of the union, and do
\* not depend on the order of the input.
C13_CompressExactCover ==
    (fnArg.fn = "compressRanges" /\ fnOut.status = "returned"
        /\ fnOut.pass = 1 /\ fnArg.toleranceSeconds = 0) =>
        /\ \A k \in 0..MaxStep :
               /\ InstantIn(fnOut.value, k) <=> InstantIn(fnArg.ranges, k)
               /\ StretchIn(fnOut.value, k) <=> StretchIn(fnArg.ranges, k)
        /\ \A i \in 1..Len(fnOut.value) :
               fnOut.value[i].start <= fnOut.value[i].end
        /\ \A i \in 1..(Len(fnOut.value) - 1) :
               /\ fnOut.value[i].start < fnOut.value[i + 1].start
               /\ fnOut.value[i].end < fnOut.value[i + 1].start
        /\ Len(fnOut.value) = Components(fnArg.ranges)
        /\ \A i \in 1..(Len(fnArg.ranges) - 1) :
               compressRanges(Swap(fnArg.ranges, i), 0) = fnOut.value

\* An unordered list with two touching intervals and one apart from them
\* was compressed to two intervals.
C13_Witness ==
    /\ fnArg.fn = "compressRanges"
    /\ fnArg.toleranceSeconds = 0
    /\ fnArg.ranges = <<Range(3 * StepMs, 3 * StepMs),
                        Range(StepMs, 2 * StepMs), Range(0, StepMs)>>
    /\ fnOut.status = "returned" /\ fnOut.pass = 1
    /\ fnOut.value = <<Range(0, 2 * StepMs), Range(3 * StepMs, 3 * StepMs)>>

\* C14: rangeIsEntirelyContained(A, B) is true exactly when every instant
\* of B lies in A, and hasCoverage of a set that stores A says the same of
\* B: a request that only partly overlaps A is not covered.
C14_ContainedIffEveryInstant ==
    (fnArg.fn = "rangePair" /\ fnOut.status = "returned"
        /\ fnOut.fn = "rangeIsEntirelyContained") =>
        /\ fnOut.value <=>
               \A t \in fnArg.b.start..fnArg.b.end :
                   fnArg.a.start <= t /\ t <= fnArg.a.end
        /\ fnOut.value <=>
               (fnArg.b.start >= fnArg.a.start /\ fnArg.b.end <= fnArg.a.end)
        /\ fnOut.other = fnOut.value

\* A request that starts inside the stored interval and ends after it is
\* not contained and not covered.
C14_Witness ==
    /\ fnArg.fn = "rangePair"
    /\ fnArg.a = Range(1, 3) /\ fnArg.b = Range(2, 4)
    /\ fnOut.status = "returned" /\ fnOut.fn = "rangeIsEntirelyContained"
    /\ ~fnOut.value /\ ~fnOut.other

\* C15: rangesOverlap(a, b) equals rangesOverlap(b, a), and is true exactly
\* when a and b have an instant in common.
C15_OverlapSymmetric ==
    (fnArg.fn = "rangePair" /\ fnOut.status = "returned"
        /\ fnOut.fn = "rangesOverlap") =>
        /\ fnOut.value = fnOut.other
        /\ fnOut.value <=>
               \E t \in 0..MaxTime :
                   /\ fnArg.a.start <= t /\ t <= fnArg.a.end
                   /\ fnArg.b.start <= t /\ t <= fnArg.b.end

\* b encloses a, neither endpoint of b being in a: they overlap, in both
\* orders of the arguments.
C15_Witness ==
    /\ fnArg.fn = "rangePair"
    /\ fnArg.a = Range(2, 2) /\ fnArg.b = Range(1, 3)
    /\ fnOut.status = "returned" /\ fnOut.fn = "rangesOverlap"
    /\ fnOut.value /\ fnOut.other

(***************************************************************************)
(* Claims about the seek time.                                             *)
(***************************************************************************)
Min(a, b) == IF a < b THEN a ELSE b
Max(a, b) == IF a > b THEN a ELSE b

\* The length in milliseconds of what a segment has in common with
\* [startTime, targetTime]: 0 when they have nothing in common.
OverlapMs(segment, startTime, targetTime) ==
    Max(0, Min(fromUnixTime(segment.end_time), targetTime)
           - Max(fromUnixTime(segment.start_time), startTime))

RECURSIVE SumOverlapMs(_, _, _)
SumOverlapMs(segments, startTime, targetTime) ==
    IF segments = <<>> THEN 0
    ELSE IF fromUnixTime(Head(segments).start_time) > targetTime THEN 0
    ELSE OverlapMs(Head(segments), startTime, targetTime)
         + SumOverlapMs(Tail(segments), startTime, targetTime)

\* C16: for a target at or after the media start and a non-empty list of
\* segments ordered from the oldest, the seek time is, in seconds, the sum
\* over the segments that start at or before the target of the duration of
\* their overlap with [mediaStart, target], a segment without overlap
\* counting for 0.
C16_SeekIsSumOfOverlaps ==
    (fnArg.fn = "getSeekTimeInSegments" /\ fnOut.status = "returned"
        /\ fnArg.startTime <= fnArg.targetTime
        /\ Len(fnArg.segments) > 0) =>
        /\ ~fnOut.value.isNull
        /\ fnOut.value.seconds * 1000 =
               SumOverlapMs(fnArg.segments, fnArg.startTime, fnArg.targetTime)

\* What a call of getMediaSeekTime found: the segment query c returned no
\* result, or a result without segments.
SeekFoundNothing(c) ==
    \/ c.status = "null"
    \/ /\ c.status = "map"
       /\ \A id \in DOMAIN c.output : c.output[id].result.payload = {}

\* The media has no start or end, or the target is before its start or
\* after its end.
SeekOutside(seek) ==
    \/ seek.media.startTime = Absent
    \/ seek.media.endTime = Absent
    \/ seek.target < seek.media.startTime
    \/ seek.target > seek.media.endTime

\* The step is a getMediaSeekTime that returns without a segment query.
SeekReturnedAtOnce == IsStart /\ call' = call /\ earlier' = earlier

\* C17: getMediaSeekTime returns null without any segment query when the
\* media has no start or end or the target is before its start or after
\* its end, and makes a segment query in no other case; it returns null
\* when the segment query gives no result or no segment; it does not throw
\* in these cases, and returns a number in the others unless the segment
\* query throws.
C17_SeekNull ==
    [][/\ SeekReturnedAtOnce =>
              /\ SeekOutside(fnArg')
              /\ fnOut'.status = "returned" /\ fnOut'.value.isNull
              /\ ~fnOut'.queried
              /\ segCache' = segCache /\ requestCache' = requestCache
       /\ (IsStart /\ ~SeekReturnedAtOnce) =>
              /\ call'.seek # NoArg
              /\ ~SeekOutside(call'.seek)
              /\ call'.op = "getRecordingSegments"
              /\ fnOut' = fnOut
       /\ \A s \in Slots :
              (~IsStart /\ CallAt(s).seek # NoArg
                  /\ CallAfter(s).seek = NoArg) =>
                 /\ fnArg' = CallAt(s).seek
                 /\ fnOut'.queried
                 /\ SeekFoundNothing(CallAt(s)) =>
                        (fnOut'.status = "returned" /\ fnOut'.value.isNull)
                 /\ (CallAt(s).status = "map"
                        /\ ~SeekFoundNothing(CallAt(s))) =>
                        (fnOut'.status = "returned" /\ ~fnOut'.value.isNull)
                 /\ fnOut'.status = "threw" <=> CallAt(s).status = "failed"
      ]_vars

\* A seek inside the media of b1 returned null: the segment query gave a
\* result without segments.
C17_Witness ==
    /\ fnArg.fn = "getMediaSeekTime"
    /\ fnArg.media = Media("b1", HourMs, 2 * HourMs)
    /\ fnArg.target = HourMs + 300 * SecondMs
    /\ call.op = "getRecordingSegments" /\ call.status = "map"
    /\ call.seek = NoArg
    /\ call.output["b1"].result.payload = {}
    /\ fnOut.status = "returned" /\ fnOut.value.isNull /\ fnOut.queried

(***************************************************************************)
(* Claims about the recordings of getRecordings.                           *)
(***************************************************************************)
\* The hours of the summary that lie entirely within the window of the
\* query: the first instant of the hour is at or after query.start, its
\* last millisecond at or before query.end, a bound that is absent
\* excluding nothing.
QualifyingHours(hours, query) ==
    {h \in ToSet(hours) :
        /\ query.start = Absent \/ h * HourMs >= query.start
        /\ query.end = Absent \/ h * HourMs + HourMs - 1 <= query.end}

\* The hours of the recordings returned.
ReturnedHours(recordings) ==
    {recordings[i].startTime \div HourMs : i \in 1..Len(recordings)}

RecordingsReturned ==
    fnArg.fn = "getRecordings" /\ fnOut.status = "returned"

\* C18 as claimed: getRecordings includes an hour of the summary in the
\* result exactly when the hour lies entirely within the window, and every
\* hour of the summary when the window has no bounds.
C18_HourIncludedIffWithin ==
    RecordingsReturned =>
        /\ ReturnedHours(fnOut.value) =
               QualifyingHours(fnArg.hours, fnArg.query)
        /\ (fnArg.query.start = Absent /\ fnArg.query.end = Absent) =>
               ReturnedHours(fnOut.value) = ToSet(fnArg.hours)

\* C18 as amended: an hour that does not lie entirely within the window is
\* never included; without a limit the hours included are exactly those
\* that lie entirely within the window, every hour of the summary when the
\* window has no bounds; a limit leaves out hours only as C19 says.
C18_HourIncludedOnlyIfWithin ==
    RecordingsReturned =>
        /\ ReturnedHours(fnOut.value) \subseteq
               QualifyingHours(fnArg.hours, fnArg.query)
        /\ fnArg.query.limit = Absent =>
               /\ ReturnedHours(fnOut.value) =
                      QualifyingHours(fnArg.hours, fnArg.query)
               /\ (fnArg.query.start = Absent /\ fnArg.query.end = Absent) =>
                      ReturnedHours(fnOut.value) = ToSet(fnArg.hours)
        /\ Len(fnOut.value) = Cardinality(ReturnedHours(fnOut.value))

\* Of three hours the window [30 min, 2 h] holds only the second: the
\* first starts before it and the third ends after it.
C18_Witness ==
    /\ RecordingsReturned
    /\ fnArg.hours = <<0, 1, 2>>
    /\ fnArg.query.start = HourMs \div 2
    /\ fnArg.query.end = 2 * HourMs
    /\ fnArg.query.limit = Absent
    /\ ReturnedHours(fnOut.value) = {1}

\* C19: with limit n the result has min(n, number of qualifying
\* recordings) recordings, the most recent qualifying ones, ordered by
\* start time descending; without a limit it has all the qualifying ones.
C19_LimitKeepsMostRecent ==
    RecordingsReturned =>
        LET qualifying == QualifyingHours(fnArg.hours, fnArg.query)
            returned == ReturnedHours(fnOut.value)
            n == fnArg.query.limit
        IN IF n = Absent
           THEN /\ returned = qualifying
                /\ Len(fnOut.value) = Cardinality(qualifying)
           ELSE /\ Len(fnOut.value) = Min(n, Cardinality(qualifying))
                /\ returned \subseteq qualifying
                /\ Cardinality(returned) = Len(fnOut.value)
                /\ \A h \in returned, g \in qualifying \ returned : g < h
                /\ \A i \in 1..(Len(fnOut.value) - 1) :
                       fnOut.value[i].startTime > fnOut.value[i + 1].startTime

\* Of three qualifying hours given out of order, limit 2 returned the two
\* most recent, the most recent first.
C19_Witness ==
    /\ RecordingsReturned
    /\ fnArg.hours = <<1, 0, 2>>
    /\ fnArg.query.start = Absent /\ fnArg.query.end = Absent
    /\ fnArg.query.limit = 2
    /\ Len(fnOut.value) = 2
    /\ fnOut.value[1].startTime = 2 * HourMs
    /\ fnOut.value[2].startTime = HourMs

\* C20 as claimed: every recording starts on an hour boundary and lasts
\* one hour exactly: endTime - startTime = 3,600,000 ms.
C20_RecordingLastsOneHour ==
    RecordingsReturned =>
        \A i \in 1..Len(fnOut.value) :
            /\ fnOut.value[i].startTime % HourMs = 0
            /\ fnOut.value[i].endTime - fnOut.value[i].startTime = HourMs

\* C20 as amended: every recording starts on an hour boundary and ends on
\* the last millisecond of that hour: endTime - startTime = 3,599,999 ms,
\* so the end of one hour's recording is one millisecond before the start
\* of the next hour's.
C20_RecordingEndsOnLastMillisecond ==
    RecordingsReturned =>
        \A i \in 1..Len(fnOut.value) :
            /\ fnOut.value[i].startTime % HourMs = 0
            /\ fnOut.value[i].endTime - fnOut.value[i].startTime = HourMs - 1
            /\ fnOut.value[i].endTime + 1 =
                   fnOut.value[i].startTime + HourMs

\* The recordings of two consecutive hours: the first ends one
\* millisecond before the second starts.
C20_Witness ==
    /\ RecordingsReturned
    /\ fnArg.hours = <<0, 1>>
    /\ fnArg.query.limit = Absent
    /\ Len(fnOut.value) = 2
    /\ fnOut.value[1].startTime = 0
    /\ fnOut.value[1].endTime = HourMs - 1
    /\ fnOut.value[2].startTime = fnOut.value[1].endTime + 1

(***************************************************************************)
(* Claims about generateMediaFromEvents.                                   *)
(***************************************************************************)
MediaReturned ==
    /\ fnArg.fn = "generateMediaFromEvents"
    /\ fnOut.status = "returned"
    /\ ~fnOut.value.isNull

\* The media made of the event at place i of the result, if any.
MediaOf(i) ==
    {fnOut.value.media[k] : k \in {j \in 1..Len(fnOut.value.media) :
                                      fnOut.value.media[j].event.id = i}}

\* The event at place i was attributed to a camera that can be queried.
EventHasCamera(i) ==
    LET query == fnArg.query
        event == fnArg.results.events[i]
        candidates ==
            IF Cardinality(query.cameraIDs) = 1 THEN query.cameraIDs
            ELSE {c \in ConfiguredCameraIDs :
                     /\ getCameraConfig(c).client_id = fnArg.results.instanceID
                     /\ getCameraConfig(c).camera_name = event.camera}
    IN \E c \in candidates :
           getCameraConfig(c).configured /\ ~isBirdseye(getCameraConfig(c))

\* C21: for an event attributed to a camera, when the query asks for
\* neither clips nor snapshots and the event offers one, the media is a
\* clip if the event has a clip, else a snapshot; otherwise the media is of
\* a type the query asks for and the event offers; when there is no such
\* type the event is omitted and the call still returns. The type is
\* always one the event offers.
C21_MediaTypeRule ==
    MediaReturned =>
        \A i \in 1..Len(fnArg.results.events) :
            LET query == fnArg.query
                event == fnArg.results.events[i]
                asksClip == query.hasClip = "true"
                asksSnapshot == query.hasSnapshot = "true"
            IN /\ Cardinality(MediaOf(i)) <= 1
               /\ \A m \in MediaOf(i) :
                      /\ m.mediaType \in {"clip", "snapshot"}
                      /\ m.mediaType = "clip" => event.has_clip
                      /\ m.mediaType = "snapshot" => event.has_snapshot
                      /\ (asksClip \/ asksSnapshot) =>
                             /\ m.mediaType = "clip" => asksClip
                             /\ m.mediaType = "snapshot" => asksSnapshot
                      /\ (~asksClip /\ ~asksSnapshot) =>
                             (m.mediaType = "clip" <=> event.has_clip)
               /\ EventHasCamera(i) =>
                      (MediaOf(i) = {} <=>
                          IF ~asksClip /\ ~asksSnapshot
                          THEN ~event.has_clip /\ ~event.has_snapshot
                          ELSE /\ ~(asksSnapshot /\ event.has_snapshot)
                               /\ ~(asksClip /\ event.has_clip))

\* A query that asks for no type (hasClip omitted, hasSnapshot false) over
\* an event with a clip and a snapshot and an event with only a snapshot
\* kept both: the first as a clip, the second as a snapshot.
C21_Witness ==
    /\ MediaReturned
    /\ fnArg.query.cameraIDs = {"a1"}
    /\ fnArg.query.hasClip = "omitted" /\ fnArg.query.hasSnapshot = "false"
    /\ Len(fnArg.results.events) = 2
    /\ fnArg.results.events[1].has_clip /\ fnArg.results.events[1].has_snapshot
    /\ ~fnArg.results.events[2].has_clip /\ fnArg.results.events[2].has_snapshot
    /\ Len(fnOut.value.media) = 2
    /\ fnOut.value.media[1].mediaType = "clip"
    /\ fnOut.value.media[2].mediaType = "snapshot"

\* C22: with exactly one camera in the query every media is attributed to
\* that camera, whatever the camera of the event; with several, every
\* media is attributed to a configured camera whose client id and camera
\* name are the instance id of the result and the camera of the event, and
\* an event that matches no configured camera yields no media, the call
\* returning all the same.
C22_CameraIdentity ==
    MediaReturned =>
        LET query == fnArg.query
            media == fnOut.value.media
        IN /\ Cardinality(query.cameraIDs) = 1 =>
                  /\ \A k \in 1..Len(media) : media[k].cameraID \in query.cameraIDs
                  /\ \A i \in 1..Len(fnArg.results.events) :
                         (EventHasCamera(i)
                          /\ EventMediaType(query, fnArg.results.events[i])
                                 # "none")
                             => MediaOf(i) # {}
           /\ Cardinality(query.cameraIDs) > 1 =>
                  /\ \A k \in 1..Len(media) :
                         LET cameraConfig == getCameraConfig(media[k].cameraID)
                         IN /\ cameraConfig.configured
                            /\ cameraConfig.client_id =
                                   fnArg.results.instanceID
                            /\ cameraConfig.camera_name =
                                   media[k].event.camera
                  /\ \A i \in 1..Len(fnArg.results.events) :
                         /\ (~\E c \in ConfiguredCameraIDs :
                                /\ getCameraConfig(c).client_id =
                                       fnArg.results.instanceID
                                /\ getCameraConfig(c).camera_name =
                                       fnArg.results.events[i].camera)
                                => MediaOf(i) = {}
                         /\ (EventHasCamera(i)
                             /\ EventMediaType(query, fnArg.results.events[i])
                                    # "none")
                                => MediaOf(i) # {}

\* A query of the one camera a1 attributed an event of the backend camera
\* "back" to a1.
C22_Witness ==
    /\ MediaReturned
    /\ fnArg.query.cameraIDs = {"a1"}
    /\ Len(fnArg.results.events) = 1
    /\ fnArg.results.events[1].camera = "back"
    /\ Len(fnOut.value.media) = 1
    /\ fnOut.value.media[1].cameraID = "a1"

\* A query of two cameras over a result of i1 kept the event of "front",
\* attributed to a1, and dropped the event of "yard".
C22_WitnessSeveral ==
    /\ MediaReturned
    /\ fnArg.query.cameraIDs = {"a1", "a2"}
    /\ fnArg.results.instanceID = "i1"
    /\ Len(fnArg.results.events) = 2
    /\ fnArg.results.events[1].camera = "yard"
    /\ fnArg.results.events[2].camera = "front"
    /\ Len(fnOut.value.media) = 1
    /\ fnOut.value.media[1].cameraID = "a1"

(***************************************************************************)
(* Claims about the garbage collector.                                     *)
(***************************************************************************)
\* The hours, by calendar day and hour of the day, of the recordings of a
\* result.
RecordedHours(result) ==
    {result.payload[i].startTime \div HourMs : i \in 1..Len(result.payload)}

\* The step is the end of a pass whose getRecordings returned results.
PassExpires ==
    /\ PassAtAwait(gcTimer)
    /\ gcTimer.pass.status = "map"
    /\ gcTimer'.run = "idle"

\* C23: at the end of a pass, for every camera c the pass has a recording
\* list of, a cached segment of c remains exactly when the hour its start
\* falls in (calendar day and hour of the day) has a recording in the
\* list; the segments of the other cameras and every coverage record are
\* as before.
C23_SegmentRemainsIffHourRecorded ==
    [][PassExpires =>
          /\ DOMAIN segCache' = DOMAIN segCache
          /\ \A c \in DOMAIN segCache :
                 /\ segCache'[c].coverage = segCache[c].coverage
                 /\ LET ids == {id \in DOMAIN gcTimer'.pass.output :
                                   gcTimer'.pass.output[id].key.cameraIDs = {c}}
                    IN IF ids = {}
                       THEN segCache'[c].segments = segCache[c].segments
                       ELSE \A id \in ids :
                                segCache'[c].segments =
                                    {sg \in segCache[c].segments :
                                        (sg.start_time * 1000) \div HourMs \in
                                            RecordedHours(
                                              gcTimer'.pass.output[id].result)}
    ]_vars

\* The step is the return of a getRecordingSegments call: what follows
\* its await when none of its branches waited, or the answer of the last
\* of its remote calls.
SegmentsReturned ==
    \E s \in Acting :
        /\ ~IsStart
        /\ Then(s).op = "getRecordingSegments"
        /\ Then(s).status \in {"map", "null"}
        /\ CallAt(s).status = "pending"

\* The step is a trigger, a call of the throttled collector: inside
\* getRecordingSegments as it returns or, where the host has idle
\* callbacks, in an idle callback later.
Triggered ==
    IF gcTimer.idleSupported
    THEN gcTimer'.idle # gcTimer.idle /\ Len(gcTimer'.idle) < Len(gcTimer.idle)
    ELSE SegmentsReturned

\* The step invokes a pass.
PassInvoked == gcTimer'.passes # gcTimer.passes

\* The arguments of the trigger the step makes.
TriggerArgs == IF gcTimer.idleSupported THEN Head(gcTimer.idle) ELSE now

\* The arguments of the most recent trigger, as the step ends.
MostRecentArgs == IF Triggered THEN TriggerArgs ELSE gcTimer.lastArgs

\* A trigger leaves its arguments in place of those of the trigger before.
MostRecentWins ==
    [][/\ Triggered => gcTimer'.lastArgs = TriggerArgs \/ PassInvoked
       /\ gcTimer'.lastArgs # gcTimer.lastArgs => Triggered \/ PassInvoked
      ]_vars


PassesApart(passes) ==
    \A i, j \in 1..Len(passes) :
        i < j => passes[j].at - passes[i].at >= GcWaitMs

\* C24 as claimed: the starts of any two passes are at least 60 minutes
\* apart, and no pass is invoked inside the call that triggers it.
C24_PassesApartNeverInsideTrigger ==
    /\ PassesApart(gcTimer.passes)
    /\ \A i \in 1..Len(gcTimer.passes) : ~gcTimer.passes[i].sync

\* The wait of the throttle has elapsed since its reference instant
\* (lastInvokeTime).
WaitElapsed == now - gcTimer.lastInvokeTime >= GcWaitMs

\* The trigger the step makes finds no timer pending and is the first
\* trigger or comes at least 60 minutes after the trigger before it.
OpensWindow ==
    /\ Triggered
    /\ ~gcTimer.pending
    /\ \/ gcTimer.lastCallTime = Absent
       \/ now - gcTimer.lastCallTime >= GcWaitMs

\* The reference instant of the throttle is the start of the previous
\* pass or, if later, the last trigger that found no timer pending and was
\* the first trigger or came at least 60 minutes after the trigger before
\* it.
ReferenceInstant ==
    gcTimer'.lastInvokeTime =
        IF PassInvoked \/ OpensWindow THEN now ELSE gcTimer.lastInvokeTime

\* C24 as amended: the starts of any two passes are at least 60 minutes
\* apart; a trigger that finds no timer pending invokes no pass (no
\* leading-edge run); a trigger that finds the timer pending invokes a
\* pass inside the trigger exactly when at least 60 minutes have passed
\* since the reference instant of the throttle, and starts the timer
\* again; such a trigger comes at least 60 minutes after every pass and
\* after the first trigger.
C24_PassesApartNoLeadingEdge ==
    [][/\ PassesApart(gcTimer'.passes)
       /\ (Triggered /\ ~gcTimer.pending) => ~PassInvoked
       /\ Triggered => (PassInvoked <=> (gcTimer.pending /\ WaitElapsed))
       /\ ReferenceInstant
       /\ (Triggered /\ PassInvoked) =>
              /\ gcTimer.pending
              /\ now >= GcWaitMs
              /\ \A i \in 1..Len(gcTimer.passes) :
                     now - gcTimer.passes[i].at >= GcWaitMs
              /\ gcTimer'.passes[Len(gcTimer'.passes)].sync
              /\ gcTimer'.pending
              /\ gcTimer'.fireAt = now + GcWaitMs
       /\ (PassInvoked /\ ~Triggered) =>
              ~gcTimer'.passes[Len(gcTimer'.passes)].sync
    ]_vars

\* Two passes: the first invoked by the timer, the second inside a trigger
\* an hour later.
C24_Witness ==
    /\ Len(gcTimer.passes) = 2
    /\ ~gcTimer.passes[1].sync
    /\ gcTimer.passes[1].at = GcWaitMs
    /\ gcTimer.passes[2].sync
    /\ gcTimer.passes[2].at = 2 * GcWaitMs

\* Every trigger is eventually followed by a pass invoked with its
\* arguments or with those of a later trigger: a trigger leaves its
\* arguments in lastArgs, and only the invocation of a pass with them
\* takes them away.
EveryTriggerServed ==
    (gcTimer.lastArgs # Absent) ~> (gcTimer.lastArgs = Absent)

\* C25 as claimed: every trigger is eventually followed by a pass; the
\* triggers of a window are served by exactly one pass, invoked when the
\* wait started by the first of them has elapsed, with the arguments of the
\* most recent trigger.
C25_OnePassWhenCooldownElapses ==
    /\ EveryTriggerServed
    /\ MostRecentWins
    /\ [][PassInvoked =>
              /\ Len(gcTimer'.passes) = Len(gcTimer.passes) + 1
              /\ now = gcTimer.fireAt
              /\ gcTimer'.passes[Len(gcTimer'.passes)].at = now
              /\ gcTimer'.passes[Len(gcTimer'.passes)].args = MostRecentArgs
          ]_vars

\* C25 as amended: every trigger is eventually followed by a pass; a pass
\* the timer invokes comes exactly when the wait has elapsed, one pass for
\* all the triggers since the previous pass, with the arguments of the most
\* recent trigger; a trigger that finds the timer pending at least 60
\* minutes after the reference instant of the throttle invokes the pass
\* itself, before the wait of its window has elapsed or as it elapses,
\* with its own arguments, and the timer is started again; no other
\* trigger invokes a pass.
C25_TrailingEdge ==
    /\ EveryTriggerServed
    /\ MostRecentWins
    /\ [][/\ PassInvoked =>
                /\ Len(gcTimer'.passes) = Len(gcTimer.passes) + 1
                /\ gcTimer.pending
                /\ now <= gcTimer.fireAt
                /\ ~Triggered => now = gcTimer.fireAt
                /\ Triggered => /\ WaitElapsed
                                /\ gcTimer'.fireAt = now + GcWaitMs
                /\ gcTimer'.passes[Len(gcTimer'.passes)].at = now
                /\ gcTimer'.passes[Len(gcTimer'.passes)].args = MostRecentArgs
                /\ gcTimer'.lastArgs = Absent
          /\ (Triggered /\ gcTimer.pending /\ WaitElapsed) => PassInvoked
          /\ ReferenceInstant
          ]_vars

\* Two triggers in one window, at 0 and 45 minutes, were served by one
\* pass at 60 minutes, invoked with the arguments of the second.
C25_Witness ==
    /\ Len(gcTimer.passes) = 1
    /\ gcTimer.passes[1].at = GcWaitMs
    /\ gcTimer.passes[1].args = 3 * GcTickMs
    /\ ~gcTimer.passes[1].sync
    /\ callsLeft = MaxGcCalls - 2

\* C26: a retain request answered with success = false fails favoriteMedia
\* with an error of its own kind that carries the request and the response,
\* and leaves the favorite flag as it was; the flag changes only after a
\* successful response, to the requested value; for media that is not an
\* event no request is sent and the flag is unchanged.
C26_RetainFailureLeavesFlag ==
    (fnArg.fn = "favoriteMedia" /\ fnOut.status # "none") =>
        LET request == RetainRequest(fnArg.clientID, fnArg.media.id,
                                     fnArg.favorite)
            requested == IF fnArg.favorite THEN "true" ELSE "false"
        IN /\ ~isFrigateEvent(fnArg.media) =>
                  /\ fnOut.status = "returned"
                  /\ fnOut.requests = <<>>
                  /\ fnOut.media = fnArg.media
           /\ isFrigateEvent(fnArg.media) => fnOut.requests = <<request>>
           /\ (fnOut.response.answered /\ ~fnOut.response.success) =>
                  /\ fnOut.status = "thrown"
                  /\ fnOut.error.kind = "FrigateCardError"
                  /\ fnOut.error.context =
                         [request |-> request, response |-> fnOut.response]
                  /\ fnOut.media = fnArg.media
           /\ fnOut.status \in {"pending", "thrown"} =>
                  fnOut.media = fnArg.media
           /\ fnOut.media # fnArg.media =>
                  /\ fnOut.response.answered /\ fnOut.response.success
                  /\ fnOut.status = "returned"
           /\ (fnOut.status = "returned" /\ isFrigateEvent(fnArg.media)) =>
                  /\ fnOut.response.success
                  /\ fnOut.media = setFavorite(fnArg.media, fnArg.favorite)
                  /\ fnOut.media.favorite = requested

\* The backend refused to retain an event that was not a favorite: the
\* call threw and the flag is still unset.
C26_Witness ==
    /\ fnArg.fn = "favoriteMedia"
    /\ fnArg.media.mediaType = "clip"
    /\ fnArg.media.favorite = "omitted"
    /\ fnArg.favorite
    /\ fnOut.status = "thrown"
    /\ fnOut.response.answered /\ ~fnOut.response.success
    /\ fnOut.media.favorite = "omitted"

\* A camera id that is a soft miss: it has no configuration, is a birdseye
\* camera or has no backend camera name.
SoftMiss(cameraID) == ~HasCameraName(cameraID)

\* The backend camera names of the cameras of the query that are no soft
\* miss.
QueriedCameraNames(query) ==
    {getCameraConfig(c).camera_name :
        c \in {x \in query.cameraIDs : ~SoftMiss(x)}}

\* C27 as claimed: in getEvents, getRecordings and getRecordingSegments a
\* soft miss raises no error (a call fails only when a remote call threw),
\* no remote call is made on its behalf, in particular none with an empty
\* list of camera names, and a call all of whose cameras are soft misses
\* makes no remote call and returns null.
C27_SoftMissesSkipped ==
    call.op \in {"getEvents", "getRecordings", "getRecordingSegments"} =>
        /\ call.status = "failed" =>
               \E b \in DOMAIN call.pc : call.pc[b] = "failed"
        /\ \A b \in RemoteCalls(call) :
               /\ call.req[b].cameras # {}
               /\ call.req[b].cameras \subseteq QueriedCameraNames(call.query)
        /\ (\A c \in call.query.cameraIDs : SoftMiss(c)) =>
               /\ RemoteCalls(call) = {}
               /\ call.status \in {"pending", "null"}

\* The hour the start of a cached segment of the camera falls in is in the
\* summary the backend has of the camera now.
HourOnBackend(cameraID, segment) ==
    startOfHour(fromUnixTime(segment.start_time)) \in
        SummaryHours(backend[getCameraConfig(cameraID).camera_name])

\* C28 as claimed: whatever the interleaving of segment fetches, changes of
\* the backend's recordings summary and passes, no step takes a segment out
\* of the Segment Cache while the hour of the segment is in the summary the
\* backend has at that moment.
C28_NeverEvictsRecordedHour ==
    [][\A c \in DOMAIN segCache : \A sg \in segCache[c].segments :
           HourOnBackend(c, sg) =>
               c \in DOMAIN segCache' /\ sg \in segCache'[c].segments
      ]_vars

\* The greatest end among the first i ranges of a sequence.
PrefixEnd(rs, i) ==
    CHOOSE e \in {rs[j].end : j \in 1..i} :
        \A j \in 1..i : rs[j].end <= e

\* The positions of the sorted input whose range starts more than the
\* tolerance after everything before it ends.
Breaks(sorted, toleranceMs) ==
    {i \in 2..Len(sorted) :
        sorted[i].start > PrefixEnd(sorted, i - 1) + toleranceMs}

\* Whether an instant lies strictly inside, or a stretch lies inside, a gap
\* of at most the tolerance between the end of one range of rs and the
\* start of another.
InSmallGap(rs, from, to, toleranceMs) ==
    \E i, j \in 1..Len(rs) :
        /\ rs[i].end < rs[j].start
        /\ rs[j].start - rs[i].end <= toleranceMs
        /\ rs[i].end <= from /\ to <= rs[j].start
        /\ from = to => (rs[i].end < from /\ to < rs[j].start)

\* C29: with a tolerance t > 0, compressRanges merges the next range in
\* ascending start order into the accumulator exactly when it starts at
\* most t seconds after the accumulator's end; two consecutive intervals of
\* the output are more than t seconds apart; the output covers the input,
\* and what it covers beyond the input lies in gaps of at most t seconds
\* between input ranges.
C29_ToleranceMerge ==
    (fnArg.fn = "compressRanges" /\ fnOut.status = "returned"
        /\ fnOut.pass = 1 /\ fnArg.toleranceSeconds > 0) =>
        LET sorted == orderByStart(fnArg.ranges)
            out == fnOut.value
            t == fnArg.toleranceSeconds * 1000
            breaks == Breaks(sorted, t)
            firsts == IF sorted = <<>> THEN {} ELSE {1} \cup breaks
        IN /\ Len(out) = Cardinality(firsts)
           /\ {out[k].start : k \in 1..Len(out)} =
                  {sorted[i].start : i \in firsts}
           /\ \A k \in 1..Len(out) :
                  LET group == {i \in 1..Len(sorted) :
                                   /\ out[k].start <= sorted[i].start
                                   /\ k < Len(out) =>
                                          sorted[i].start < out[k + 1].start}
                  IN /\ \E i \in group : out[k].end = sorted[i].end
                     /\ \A i \in group : sorted[i].end <= out[k].end
           /\ \A k \in 1..(Len(out) - 1) :
                  out[k + 1].start - out[k].end > t
           /\ \A k \in 0..MaxStep :
                  /\ InstantIn(fnArg.ranges, k) => InstantIn(out, k)
                  /\ StretchIn(fnArg.ranges, k) => StretchIn(out, k)
                  /\ (InstantIn(out, k) /\ ~InstantIn(fnArg.ranges, k)) =>
                         InSmallGap(fnArg.ranges, k * StepMs, k * StepMs, t)
                  /\ (StretchIn(out, k) /\ ~StretchIn(fnArg.ranges, k)) =>
                         InSmallGap(fnArg.ranges, k * StepMs,
                                    (k + 1) * StepMs, t)

\* With a tolerance of one second, an interval that starts exactly one
\* second after the first ends was merged with it: the output covers the
\* second between them.
C29_Witness ==
    /\ fnArg.fn = "compressRanges"
    /\ fnArg.toleranceSeconds = 1
    /\ fnArg.ranges = <<Range(2 * StepMs, 2 * StepMs), Range(0, 0)>>
    /\ fnOut.status = "returned" /\ fnOut.pass = 1
    /\ fnOut.value = <<Range(0, 2 * StepMs)>>

\* The segments of a list do not overlap: each ends at or before the start
\* of the next.
NonOverlapping(segments) ==
    \A i \in 1..(Len(segments) - 1) :
        segments[i].end_time <= segments[i + 1].start_time

\* C30 as claimed: for a target at or after the media start and a
\* non-empty list of non-overlapping segments ordered from the oldest,
\* among them segments that end before the media start or go on beyond the
\* target, the seek time is a number of seconds that is not negative and
\* not more than target - start.
C30_SeekWithinBounds ==
    (fnArg.fn = "getSeekTimeInSegments" /\ fnOut.status = "returned"
        /\ fnArg.startTime <= fnArg.targetTime
        /\ Len(fnArg.segments) > 0
        /\ NonOverlapping(fnArg.segments)) =>
        /\ ~fnOut.value.isNull
        /\ fnOut.value.seconds >= 0
        /\ fnOut.value.seconds * 1000 <= fnArg.targetTime - fnArg.startTime

\* The configuration of the camera has the instance id of the result and
\* the camera name of the event.
ConfigMatches(cameraID, instanceID, event) ==
    /\ getCameraConfig(cameraID).configured
    /\ getCameraConfig(cameraID).client_id = instanceID
    /\ getCameraConfig(cameraID).camera_name = event.camera

\* C31 as claimed: every media generateMediaFromEvents returns is
\* attributed to a camera of the query whose configured instance id and
\* backend camera name are the instance id of the result and the camera
\* name of the event.
C31_AttributedWithinQuery ==
    MediaReturned =>
        \A k \in 1..Len(fnOut.value.media) :
            /\ fnOut.value.media[k].cameraID \in fnArg.query.cameraIDs
            /\ ConfigMatches(fnOut.value.media[k].cameraID,
                             fnArg.results.instanceID,
                             fnOut.value.media[k].event)

\* C31 as amended: every media is attributed to a camera that has a
\* configuration and is no birdseye camera. For a query of one camera it is
\* that camera, whatever the instance of the result and the camera of the
\* event. For a query of several cameras it is the first camera, in the
\* order of the configuration, whose instance id and camera name are those
\* of the result and of the event, whether the query names it or not.
C31_AttributedToMatch ==
    MediaReturned =>
        \A k \in 1..Len(fnOut.value.media) :
            LET cameraID == fnOut.value.media[k].cameraID
                event == fnOut.value.media[k].event
            IN /\ getCameraConfig(cameraID).configured
               /\ ~isBirdseye(getCameraConfig(cameraID))
               /\ Cardinality(fnArg.query.cameraIDs) = 1 =>
                      cameraID \in fnArg.query.cameraIDs
               /\ Cardinality(fnArg.query.cameraIDs) # 1 =>
                      /\ ConfigMatches(cameraID, fnArg.results.instanceID,
                                       event)
                      /\ \E i \in 1..Len(CameraConfigEntries) :
                             /\ CameraConfigEntries[i] = cameraID
                             /\ \A j \in 1..(i - 1) :
                                    ~ConfigMatches(CameraConfigEntries[j],
                                         fnArg.results.instanceID, event)

\* An event of camera front of instance i1, in the result of a query for
\* a2 and b1, was attributed to a1, which the query does not name.
C31_Witness ==
    /\ MediaReturned
    /\ fnArg.query.cameraIDs = {"a2", "b1"}
    /\ fnArg.results.instanceID = "i1"
    /\ Len(fnOut.value.media) = 1
    /\ fnOut.value.media[1].event.camera = "front"
    /\ fnOut.value.media[1].cameraID = "a1"

\* The ranges of a set in one order, the same for every state.
RECURSIVE InSomeOrder(_)
InSomeOrder(rangeSet) ==
    IF rangeSet = {} THEN <<>>
    ELSE LET r == CHOOSE x \in rangeSet : TRUE
         IN <<r>> \o InSomeOrder(rangeSet \ {r})

\* C32: the stored intervals of the plain coverage cache are a function of
\* the set of ranges added since the last clear: whatever the order of the
\* adds, and however often a range was added, they are the intervals one
\* compression of that set gives, and so is every answer of hasCoverage.
C32_OrderIndependent ==
    /\ ranges = compressRanges(InSomeOrder(added), 0)
    /\ \A Y \in AllRanges :
           hasCoverage(ranges, Y) <=>
               hasCoverage(compressRanges(InSomeOrder(added), 0), Y)

\* Three ranges that touch were added, in any of their orders, and one
\* interval is stored.
C32_Witness ==
    /\ lastOp = "add"
    /\ added = {Range(2, 3), Range(0, 1), Range(1, 2)}
    /\ ranges = <<Range(0, 3)>>
    /\ hasCoverage(ranges, Range(0, 3))

\* The step is the trigger made in an idle callback.
IdleCallback == Len(gcTimer'.idle) < Len(gcTimer.idle)

\* C33: getRecordingSegments triggers the garbage collector in the step in
\* which it returns, a map or null, and in no other: every branch has then
\* ended without a failure, and the step makes exactly one trigger, queued
\* for the next idle callback where the host has them and made at once
\* where it has not (it leaves its arguments, or the pass it invokes runs
\* with them), whatever useCache is and whether or not a branch was
\* served from the cache. A call one of whose remote calls threw makes no
\* trigger, neither when it fails nor when its other branches end; no
\* other step of a call touches the throttle, and the timer and the
\* passes make no trigger.
C33_OneTriggerPerSuccessfulCall ==
    [][/\ SegmentsReturned =>
              /\ \A s \in Acting : \A b \in DOMAIN Then(s).pc :
                     Then(s).pc[b] \in {"done", "hit", "skipped"}
              /\ gcTimer.idleSupported =>
                     gcTimer' = [gcTimer EXCEPT !.idle = Append(@, now)]
              /\ ~gcTimer.idleSupported =>
                     /\ gcTimer'.lastCallTime = now
                     /\ gcTimer'.pending
                     /\ gcTimer'.idle = <<>>
                     /\ IF PassInvoked
                        THEN /\ gcTimer'.passes =
                                    Append(gcTimer.passes,
                                           [at |-> now, args |-> now,
                                            sync |-> TRUE])
                             /\ gcTimer'.lastArgs = Absent
                        ELSE gcTimer'.lastArgs = now
       /\ (Acting # {} /\ ~SegmentsReturned) => gcTimer' = gcTimer
       /\ (~SegmentsReturned /\ ~IdleCallback) =>
              /\ gcTimer'.lastCallTime = gcTimer.lastCallTime
              /\ gcTimer'.idle = gcTimer.idle
              /\ gcTimer'.lastArgs \in {gcTimer.lastArgs, Absent}
              /\ PassInvoked =>
                     ~gcTimer'.passes[Len(gcTimer'.passes)].sync
       /\ \A s \in Acting :
              (Then(s).op = "getRecordingSegments"
                  /\ Then(s).status = "failed") => gcTimer' = gcTimer
      ]_vars

\* On a host without idle callbacks a call for a camera without
\* configuration has returned null an hour after the first trigger: its
\* trigger, made at once, invoked a pass with the arguments of the call.
C33_Witness ==
    /\ call.op = "getRecordingSegments"
    /\ call.query.cameraIDs = {"u"}
    /\ call.useCache = "false"
    /\ call.status = "null"
    /\ ~gcTimer.idleSupported
    /\ now = GcWaitMs
    /\ gcTimer.lastCallTime = now
    /\ gcTimer.passes = <<[at |-> now, args |-> now, sync |-> TRUE]>>
    /\ callsLeft = MaxCalls - 2

\* What a step does to the calls that take it, in getRecordings and
\* getRecordingSegments with caching on: the failure of a branch leaves
\* the caches and the other branches as they are, and a branch whose
\* remote call answers stores its result in the cache whether or not the
\* call has already failed.
SiblingWritesKept ==
    \A s \in Acting :
        (Then(s).op \in {"getRecordings", "getRecordingSegments"}
            /\ UseCache(Then(s).useCache) /\ ~IsStart) =>
           /\ FailedBranches(Then(s)) # FailedBranches(CallAt(s)) =>
                  /\ requestCache' = requestCache
                  /\ segCache' = segCache
                  /\ \E b \in DOMAIN CallAt(s).pc :
                         /\ CallAt(s).pc[b] = "waiting"
                         /\ Then(s).pc[b] = "failed"
                         /\ \A x \in DOMAIN CallAt(s).pc \ {b} :
                                Then(s).pc[x] = CallAt(s).pc[x]
           /\ \A b \in DOMAIN Then(s).pc :
                  (CallAt(s).pc[b] = "waiting" /\ Then(s).pc[b] = "done") =>
                      Stored(Then(s), b)

\* The step is the retry of the call made last, which has failed: the same
\* operation with the same query, caching on in both.
IsRetry ==
    /\ IsStart
    /\ call'.op \in {"getRecordings", "getRecordingSegments"}
    /\ call.op = call'.op /\ call.query = call'.query
    /\ UseCache(call.useCache) /\ UseCache(call'.useCache)
    /\ call.status = "failed"

\* C34 as claimed: in getRecordings and getRecordingSegments with caching
\* on, the failure of a branch leaves the caches and the other branches as
\* they are; a branch whose remote call answers stores its result in the
\* cache whether or not the call has already failed; and the same call
\* made again after a failure issues remote calls for the branches that
\* failed and for no other, the others being served from the cache.
C34_RetryOnlyFailedBranches ==
    [][/\ SiblingWritesKept
       /\ IsRetry =>
              /\ RemoteCalls(call') = FailedBranches(call)
              /\ \A b \in DOMAIN call.pc :
                     call.pc[b] \in {"done", "hit"} => call'.pc[b] = "hit"
      ]_vars

\* The branches of a call that answered or were served from the cache and
\* whose result has expired at date: a result of getRecordings expires 60
\* seconds after it was fetched, the segments stored do not expire.
ExpiredBranches(c, date) ==
    {b \in DOMAIN c.pc :
        /\ c.pc[b] \in {"done", "hit"}
        /\ c.op = "getRecordings"
        /\ date > c.output[b].result.expiry}

\* C34 as amended: the failure of a branch leaves the caches and the other
\* branches as they are; a branch whose remote call answers stores its
\* result in the cache whether or not the call has already failed; the
\* same call made again after the failure is served from the cache for the
\* branches that had answered or been served from it and whose result has
\* not expired, and issues remote calls only for the branches that failed,
\* for those whose remote call is still in flight as it is made and for
\* those whose result has expired: for exactly these branches when no
\* other call was in progress, and so for exactly the branches that failed
\* when the retry is made after the other branches have ended and before
\* their results expire.
C34_FailureKeepsSiblingWrites ==
    [][/\ SiblingWritesKept
       /\ IsRetry =>
              /\ RemoteCalls(call') \subseteq
                     FailedBranches(call) \cup Waiting(call)
                         \cup ExpiredBranches(call, now)
              /\ \A b \in DOMAIN call.pc :
                     (/\ call.pc[b] \in {"done", "hit"}
                      /\ b \notin ExpiredBranches(call, now)) =>
                         call'.pc[b] = "hit"
              /\ earlier = <<>> =>
                     RemoteCalls(call') =
                         FailedBranches(call) \cup Waiting(call)
                             \cup ExpiredBranches(call, now)
      ]_vars

\* A getRecordings call for a1 and b1 failed with the error of b1 and was
\* made again while its remote call for a1 was in flight: the retry has
\* issued remote calls for both cameras.
C34_Witness ==
    /\ call.op = "getRecordings"
    /\ call.query.cameraIDs = {"a1", "b1"}
    /\ call.useCache = "true"
    /\ call.pc["a1"] = "waiting" /\ call.pc["b1"] = "waiting"
    /\ Len(earlier) = 1
    /\ earlier[1].op = "getRecordings"
    /\ earlier[1].query = call.query
    /\ earlier[1].useCache = "true"
    /\ earlier[1].status = "failed" /\ earlier[1].error = "b1"
    /\ earlier[1].pc["a1"] = "waiting"
    /\ callsLeft = MaxRetryCalls - 2

====
